---- MODULE Spec2Model ----
(***************************************************************************)
(* Model of the framebuffer terminal emulator (fb_term.c): the cell grid,  *)
(* the UTF-8 accumulator, the escape-sequence parser and the grid          *)
(* operations driven by term_process_char.                                 *)
(*                                                                         *)
(* struct terminal is the record `term`.  Its cells array is kept as the   *)
(* C object is laid out: MAX_TERM_ROWS rows of MAX_TERM_COLS cells, row     *)
(* major, of which the TERM_ROWS x TERM_COLS top-left part is the visible   *)
(* grid.  An access cells[y][x] is the flat element y*MAX_TERM_COLS + x,    *)
(* so a column index outside 0..MAX_TERM_COLS-1 lands in a neighbouring     *)
(* row, as it does in the compiled program.  An access outside the whole    *)
(* array is undefined behaviour: the step is marked `fault` and the model   *)
(* follows the process no further.  An access whose indices are outside    *)
(* the visible grid, inside the array or not, is marked `stray`.           *)
(*                                                                         *)
(* C int arithmetic is 32-bit two's complement (AddW32, Mul10AddW32).      *)
(***************************************************************************)
EXTENDS Integers, Sequences, FiniteSets, TLC

VARIABLES
    TERM_COLS,  \* static int TERM_COLS, set once by main before term_init
    TERM_ROWS,  \* static int TERM_ROWS, set once by main before term_init
    term,       \* struct terminal
    pre,        \* the terminal as it was when the pending input arrived
    inp,        \* bytes read from the PTY master, not yet processed
    done,       \* bytes already handed to term_process_char, in order
    kb,         \* the statics of fb_map.c
    kbio,       \* the last call into the mapper and its answer, the keys held
    host,       \* main: position, locals, resources, and its descriptors' far ends
    fb          \* struct framebuffer: geometry and the bytes of the mapping

vars == <<TERM_COLS, TERM_ROWS, term, pre, inp, done, kb, kbio, host, fb>>

(***************************************************************************)
(* Sizes.  The program's limits are 500 x 200 cells with at least 40 x 10; *)
(* the model keeps the relations MIN <= TERM <= MAX on a small array.      *)
(***************************************************************************)
MAX_TERM_COLS == 4
MAX_TERM_ROWS == 4
MIN_TERM_COLS == 3
MIN_TERM_ROWS == 3
MAX_ESCAPE_PARAMS == 16

\* Indices further than this from the array are not mapped into it.
Far == 64

INT_MAX == 2147483647
INT_MIN == (-2147483647) - 1

NCells == MAX_TERM_ROWS * MAX_TERM_COLS

Min(a, b) == IF a < b THEN a ELSE b
Max(a, b) == IF a > b THEN a ELSE b

(***************************************************************************)
(* 32-bit int arithmetic.                                                  *)
(***************************************************************************)
\* a + b in a C int (wraps modulo 2^32).
AddW32(a, b) ==
    IF b > 0 /\ a > INT_MAX - b THEN ((a - INT_MAX) - 1) + ((b - INT_MAX) - 1)
    ELSE IF b < 0 /\ a < INT_MIN - b THEN ((a + INT_MAX) + 1) + ((b + INT_MAX) + 1)
    ELSE a + b

\* p * 10 + d in a C int, computed on 16-bit halves.
Mul10AddW32(p, d) ==
    LET hi == p \div 65536
        lo == p % 65536
        low == lo * 10 + d
        h == hi * 10 + (low \div 65536)
        hw == ((h + 32768) % 65536) - 32768
    IN  hw * 65536 + (low % 65536)

(***************************************************************************)
(* Bytes and bit masks.                                                    *)
(***************************************************************************)
\* c & mask, for a mask that keeps the bits at and above bit k of a byte.
AndHigh(c, k) == c - (c % (2 ^ k))
\* c & mask, for a mask that keeps the k low bits.
AndLow(c, k) == c % (2 ^ k)

ESC == 27
BEL == 7
SPACE == 32
REPLACEMENT == 65533

WHITE == 16777215
BLACK == 0

\* color_palette[0..15]
color_palette(i) ==
    CASE i = 0 -> 0
      [] i = 1 -> 13434880
      [] i = 2 -> 52480
      [] i = 3 -> 13487360
      [] i = 4 -> 238
      [] i = 5 -> 13435085
      [] i = 6 -> 52685
      [] i = 7 -> 15066597
      [] i = 8 -> 8355711
      [] i = 9 -> 16711680
      [] i = 10 -> 65280
      [] i = 11 -> 16776960
      [] i = 12 -> 6053119
      [] i = 13 -> 16711935
      [] i = 14 -> 65535
      [] i = 15 -> 16777215

(***************************************************************************)
(* The cells array.                                                        *)
(***************************************************************************)
ZeroCell == [codepoint |-> 0, fg_color |-> 0, bg_color |-> 0, bold |-> 0]

Near(v) == v >= -Far /\ v <= Far
Flat(y, x) == y * MAX_TERM_COLS + x
\* cells[y][x] is an element of the array
InStore(y, x) == Near(y) /\ Near(x) /\ Flat(y, x) >= 0 /\ Flat(y, x) < NCells
\* cells[y][x] is a cell of the visible grid
InGrid(y, x) == y >= 0 /\ y < TERM_ROWS /\ x >= 0 /\ x < TERM_COLS

\* the visible cell (y, x) of terminal t
Cell(t, y, x) == t.cells[Flat(y, x)]
\* the visible row y of terminal t
Row(t, y) == [x \in 0..(TERM_COLS - 1) |-> Cell(t, y, x)]

\* the three stores every erase loop makes into one cell: bold is not stored
Blanked(t, c) ==
    [c EXCEPT !.codepoint = SPACE, !.fg_color = t.fg_color, !.bg_color = t.bg_color]

\* for (x = x1; x <= x2; x++) blank cells[y][x]
BlankCols(t, y, x1, x2) ==
    LET hit(i) == Near(y) /\ x1 <= i - y * MAX_TERM_COLS /\ i - y * MAX_TERM_COLS <= x2
        outside == x1 <= x2 /\ (~InStore(y, x1) \/ ~InStore(y, x2))
    IN  [t EXCEPT
            !.cells = [i \in 0..(NCells - 1) |->
                          IF hit(i) THEN Blanked(t, t.cells[i]) ELSE t.cells[i]],
            !.fault = @ \/ outside,
            !.stray = @ \/ (x1 <= x2 /\ (~InGrid(y, x1) \/ ~InGrid(y, x2)))]

\* blank the TERM_COLS cells of row y
BlankRow(t, y) == BlankCols(t, y, 0, TERM_COLS - 1)

\* for (y = ya; y < yb; y++) memcpy(cells[y], cells[y + 1], TERM_COLS cells)
ShiftRowsUp(t, ya, yb) ==
    LET moved(y, x) == y >= ya /\ y < yb /\ x < TERM_COLS /\ y >= 0 /\ y + 1 < MAX_TERM_ROWS
    IN  [t EXCEPT
            !.cells = [i \in 0..(NCells - 1) |->
                          LET y == i \div MAX_TERM_COLS
                              x == i % MAX_TERM_COLS
                          IN  IF moved(y, x) THEN t.cells[i + MAX_TERM_COLS] ELSE t.cells[i]],
            !.fault = @ \/ (ya < yb /\ (ya < 0 \/ yb >= MAX_TERM_ROWS)),
            !.stray = @ \/ (ya < yb /\ (ya < 0 \/ yb >= TERM_ROWS))]

\* for (y = yb; y > ya; y--) memcpy(cells[y], cells[y - 1], TERM_COLS cells)
ShiftRowsDown(t, ya, yb) ==
    LET moved(y, x) == y > ya /\ y <= yb /\ x < TERM_COLS /\ y >= 1 /\ y < MAX_TERM_ROWS
    IN  [t EXCEPT
            !.cells = [i \in 0..(NCells - 1) |->
                          LET y == i \div MAX_TERM_COLS
                              x == i % MAX_TERM_COLS
                          IN  IF moved(y, x) THEN t.cells[i - MAX_TERM_COLS] ELSE t.cells[i]],
            !.fault = @ \/ (ya < yb /\ (ya < 0 \/ yb >= MAX_TERM_ROWS)),
            !.stray = @ \/ (ya < yb /\ (ya < 0 \/ yb >= TERM_ROWS))]

(***************************************************************************)
(* term_init                                                               *)
(***************************************************************************)
term_init ==
    [cells |-> [i \in 0..(NCells - 1) |->
                   IF i \div MAX_TERM_COLS < TERM_ROWS /\ i % MAX_TERM_COLS < TERM_COLS
                   THEN [codepoint |-> SPACE, fg_color |-> WHITE,
                         bg_color |-> BLACK, bold |-> 0]
                   ELSE ZeroCell],
     cursor_x |-> 0,
     cursor_y |-> 0,
     cursor_visible |-> 1,
     fg_color |-> WHITE,
     bg_color |-> BLACK,
     bold |-> 0,
     scroll_top |-> 0,
     scroll_bottom |-> TERM_ROWS - 1,
     master_fd |-> -1,
     state |-> "STATE_NORMAL",
     escape_params |-> [i \in 0..(MAX_ESCAPE_PARAMS - 1) |-> 0],
     num_escape_params |-> 0,
     private_mode |-> 0,
     escape_buf_len |-> 0,
     utf8_buf |-> [i \in 0..3 |-> 0],
     utf8_buf_len |-> 0,
     written |-> <<>>,     \* bytes written to master_fd so far
     fault |-> FALSE,      \* an access outside the cells array has happened
     stray |-> FALSE]      \* a cell outside the rows x cols grid has been read or written

(***************************************************************************)
(* Scrolling, newline, carriage return, putchar                            *)
(***************************************************************************)
term_scroll_up(t) ==
    BlankRow(ShiftRowsUp(t, t.scroll_top, t.scroll_bottom), t.scroll_bottom)

term_scroll_down(t) ==
    BlankRow(ShiftRowsDown(t, t.scroll_top, t.scroll_bottom), t.scroll_top)

term_newline(t) ==
    LET y == AddW32(t.cursor_y, 1)
    IN  IF y > t.scroll_bottom
        THEN term_scroll_up([t EXCEPT !.cursor_y = t.scroll_bottom])
        ELSE [t EXCEPT !.cursor_y = y]

term_carriage_return(t) == [t EXCEPT !.cursor_x = 0]

\* term_putchar wrapping only past column cols
term_putchar_late(t, codepoint) ==
    LET t1 == IF t.cursor_x > TERM_COLS
              THEN term_newline(term_carriage_return(t))
              ELSE t
        t2 == IF t1.cursor_y >= TERM_ROWS
              THEN [t1 EXCEPT !.cursor_y = TERM_ROWS - 1]
              ELSE t1
        c == [codepoint |-> codepoint, fg_color |-> t2.fg_color,
              bg_color |-> t2.bg_color, bold |-> t2.bold]
        t3 == [t2 EXCEPT !.stray = @ \/ ~InGrid(t2.cursor_y, t2.cursor_x)]
    IN  IF InStore(t2.cursor_y, t2.cursor_x)
        THEN [t3 EXCEPT !.cells[Flat(t2.cursor_y, t2.cursor_x)] = c,
                        !.cursor_x = AddW32(@, 1)]
        ELSE [t3 EXCEPT !.fault = TRUE, !.cursor_x = AddW32(@, 1)]

term_putchar(t, codepoint) ==
    LET t1 == IF t.cursor_x >= TERM_COLS
              THEN term_newline(term_carriage_return(t))
              ELSE t
        t2 == IF t1.cursor_y >= TERM_ROWS
              THEN [t1 EXCEPT !.cursor_y = TERM_ROWS - 1]
              ELSE t1
        c == [codepoint |-> codepoint, fg_color |-> t2.fg_color,
              bg_color |-> t2.bg_color, bold |-> t2.bold]
        t3 == [t2 EXCEPT !.stray = @ \/ ~InGrid(t2.cursor_y, t2.cursor_x)]
    IN  IF InStore(t2.cursor_y, t2.cursor_x)
        THEN [t3 EXCEPT !.cells[Flat(t2.cursor_y, t2.cursor_x)] = c,
                        !.cursor_x = AddW32(@, 1)]
        ELSE [t3 EXCEPT !.fault = TRUE, !.cursor_x = AddW32(@, 1)]

(***************************************************************************)
(* utf8_decode, applied to the accumulator utf8_buf                        *)
(***************************************************************************)
\* **p && (**p & 0xC0) == 0x80
IsCont(b) == b # 0 /\ AndHigh(b, 6) = 128

\* the 110xxxxx branch
decode2(buf) ==
    LET cp == AndLow(buf[0], 5) * 64
    IN  IF IsCont(buf[1]) THEN cp + AndLow(buf[1], 6) ELSE cp

\* the 1110xxxx branch
decode3(buf) ==
    LET cp == AndLow(buf[0], 4) * 4096
    IN  IF IsCont(buf[1])
        THEN LET cp1 == cp + AndLow(buf[1], 6) * 64
             IN  IF IsCont(buf[2]) THEN cp1 + AndLow(buf[2], 6) ELSE cp1
        ELSE cp

\* the 11110xxx branch
decode4(buf) ==
    LET cp == AndLow(buf[0], 3) * 262144
    IN  IF IsCont(buf[1])
        THEN LET cp1 == cp + AndLow(buf[1], 6) * 4096
             IN  IF IsCont(buf[2])
                 THEN LET cp2 == cp1 + AndLow(buf[2], 6) * 64
                      IN  IF IsCont(buf[3]) THEN cp2 + AndLow(buf[3], 6) ELSE cp2
                 ELSE cp1
        ELSE cp

\* utf8_decode with the three-byte branch given the two-byte payload shift
utf8_decode_short3(buf) ==
    LET c == buf[0]
    IN  IF c = 0 THEN 0
        ELSE IF AndHigh(c, 7) = 0 THEN c
        ELSE IF AndHigh(c, 5) = 192 THEN decode2(buf)
        ELSE IF AndHigh(c, 4) = 224 THEN decode2(buf)
        ELSE IF AndHigh(c, 3) = 240 THEN decode4(buf)
        ELSE REPLACEMENT

utf8_decode(buf) ==
    LET c == buf[0]
    IN  IF c = 0 THEN 0
        ELSE IF AndHigh(c, 7) = 0 THEN c
        ELSE IF AndHigh(c, 5) = 192 THEN decode2(buf)
        ELSE IF AndHigh(c, 4) = 224 THEN decode3(buf)
        ELSE IF AndHigh(c, 3) = 240 THEN decode4(buf)
        ELSE REPLACEMENT

\* expected_len of term_process_char, from the first accumulated byte
expected_len(b0) ==
    IF AndHigh(b0, 7) = 0 THEN 1
    ELSE IF AndHigh(b0, 5) = 192 THEN 2
    ELSE IF AndHigh(b0, 4) = 224 THEN 3
    ELSE IF AndHigh(b0, 3) = 240 THEN 4
    ELSE 1

(***************************************************************************)
(* term_handle_csi                                                         *)
(***************************************************************************)
\* (n > 0 && p[0] > 0) ? p[0] : 1
Count(t) ==
    IF t.num_escape_params > 0 /\ t.escape_params[0] > 0 THEN t.escape_params[0] ELSE 1

\* (n > i && p[i] > 0) ? p[i] - 1 : dflt
Coord(t, i, dflt) ==
    IF t.num_escape_params > i /\ t.escape_params[i] > 0
    THEN t.escape_params[i] - 1
    ELSE dflt

\* for (y = ya; y <= yb; y++) blank the TERM_COLS cells of row y
BlankRows(t, ya, yb) ==
    LET hit(y, x) == y >= ya /\ y <= yb /\ x < TERM_COLS
    IN  [t EXCEPT
            !.cells = [i \in 0..(NCells - 1) |->
                          IF hit(i \div MAX_TERM_COLS, i % MAX_TERM_COLS)
                          THEN Blanked(t, t.cells[i]) ELSE t.cells[i]],
            !.fault = @ \/ (ya <= yb /\ (ya < 0 \/ yb >= MAX_TERM_ROWS)),
            !.stray = @ \/ (ya <= yb /\ (ya < 0 \/ yb >= TERM_ROWS))]

csi_cursor_position(t) ==
    LET y == Coord(t, 0, 0)
        x == Coord(t, 1, 0)
    IN  [t EXCEPT !.cursor_y = IF y >= TERM_ROWS THEN TERM_ROWS - 1 ELSE y,
                  !.cursor_x = IF x >= TERM_COLS THEN TERM_COLS - 1 ELSE x]

csi_cursor_up(t) ==
    LET y == AddW32(t.cursor_y, -Count(t))
    IN  [t EXCEPT !.cursor_y = IF y < 0 THEN 0 ELSE y]

csi_cursor_down(t) ==
    LET y == AddW32(t.cursor_y, Count(t))
    IN  [t EXCEPT !.cursor_y = IF y >= TERM_ROWS THEN TERM_ROWS - 1 ELSE y]

csi_cursor_forward(t) ==
    LET x == AddW32(t.cursor_x, Count(t))
    IN  [t EXCEPT !.cursor_x = IF x >= TERM_COLS THEN TERM_COLS - 1 ELSE x]

csi_cursor_backward(t) ==
    LET x == AddW32(t.cursor_x, -Count(t))
    IN  [t EXCEPT !.cursor_x = IF x < 0 THEN 0 ELSE x]

csi_erase_display(t) ==
    LET n == t.num_escape_params
        p0 == t.escape_params[0]
    IN  IF n = 0 \/ p0 = 0 THEN
            BlankRows(BlankCols(t, t.cursor_y, t.cursor_x, TERM_COLS - 1),
                      AddW32(t.cursor_y, 1), TERM_ROWS - 1)
        ELSE IF p0 = 1 THEN
            \* for (y = 0; y < cursor_y; y++): no row when cursor_y <= 0
            BlankCols(IF t.cursor_y > 0 THEN BlankRows(t, 0, t.cursor_y - 1) ELSE t,
                      t.cursor_y, 0, t.cursor_x)
        ELSE IF p0 = 2 \/ p0 = 3 THEN
            BlankRows(t, 0, TERM_ROWS - 1)
        ELSE t

csi_erase_line(t) ==
    LET n == t.num_escape_params
        p0 == t.escape_params[0]
    IN  IF n = 0 \/ p0 = 0 THEN BlankCols(t, t.cursor_y, t.cursor_x, TERM_COLS - 1)
        ELSE IF p0 = 1 THEN BlankCols(t, t.cursor_y, 0, t.cursor_x)
        ELSE IF p0 = 2 THEN BlankCols(t, t.cursor_y, 0, TERM_COLS - 1)
        ELSE t

\* one parameter of SGR
sgr_param(t, p) ==
    IF p = 0 THEN [t EXCEPT !.fg_color = WHITE, !.bg_color = BLACK, !.bold = 0]
    ELSE IF p = 1 THEN [t EXCEPT !.bold = 1]
    ELSE IF p = 22 THEN [t EXCEPT !.bold = 0]
    ELSE IF p >= 30 /\ p <= 37 THEN [t EXCEPT !.fg_color = color_palette(p - 30)]
    ELSE IF p = 39 THEN [t EXCEPT !.fg_color = WHITE]
    ELSE IF p >= 40 /\ p <= 47 THEN [t EXCEPT !.bg_color = color_palette(p - 40)]
    ELSE IF p = 49 THEN [t EXCEPT !.bg_color = BLACK]
    ELSE IF p >= 90 /\ p <= 97 THEN [t EXCEPT !.fg_color = color_palette(p - 90 + 8)]
    ELSE IF p >= 100 /\ p <= 107 THEN [t EXCEPT !.bg_color = color_palette(p - 100 + 8)]
    ELSE t

RECURSIVE sgr_loop(_, _)
\* for (i = i0; i < n; i++) apply p[i]
\* (in the loops the singleton set binds the state after each round, computed once)
sgr_loop(t, i) ==
    IF i >= t.num_escape_params THEN t
    ELSE CHOOSE r \in {sgr_loop(nt, i + 1) :
                          nt \in {sgr_param(t, t.escape_params[i])}} : TRUE

\* csi_sgr without the reset for an empty parameter list
csi_sgr_keep(t) == sgr_loop(t, 0)

csi_sgr(t) ==
    sgr_loop(IF t.num_escape_params = 0
             THEN [t EXCEPT !.fg_color = WHITE, !.bg_color = BLACK, !.bold = 0]
             ELSE t, 0)

\* p[i] == 25 for some i < n
HasParam25(t) ==
    \E i \in 0..(MAX_ESCAPE_PARAMS - 1) : i < t.num_escape_params /\ t.escape_params[i] = 25

csi_set_mode(t) ==
    IF t.private_mode # 0 /\ HasParam25(t) THEN [t EXCEPT !.cursor_visible = 1] ELSE t

csi_reset_mode(t) ==
    IF t.private_mode # 0 /\ HasParam25(t) THEN [t EXCEPT !.cursor_visible = 0] ELSE t

csi_set_scroll_region(t) ==
    LET top == Coord(t, 0, 0)
        bot == Coord(t, 1, TERM_ROWS - 1)
    IN  [t EXCEPT !.scroll_top = IF top >= TERM_ROWS THEN 0 ELSE top,
                  !.scroll_bottom = IF bot >= TERM_ROWS THEN TERM_ROWS - 1 ELSE bot]

csi_line_absolute(t) ==
    LET y == Coord(t, 0, 0)
    IN  [t EXCEPT !.cursor_y = IF y >= TERM_ROWS THEN TERM_ROWS - 1 ELSE y]

csi_column_absolute(t) ==
    LET x == Coord(t, 0, 0)
    IN  [t EXCEPT !.cursor_x = IF x >= TERM_COLS THEN TERM_COLS - 1 ELSE x]

\* A row loop run k times reaches its fixed point within MAX_TERM_ROWS rounds:
\* every row it touches is by then a copy of the blanked edge row.
Rounds(k) == Min(k, MAX_TERM_ROWS)

RECURSIVE scroll_up_loop(_, _)
scroll_up_loop(t, k) ==
    IF k <= 0 THEN t
    ELSE CHOOSE r \in {scroll_up_loop(nt, k - 1) : nt \in {term_scroll_up(t)}} : TRUE

RECURSIVE scroll_down_loop(_, _)
scroll_down_loop(t, k) ==
    IF k <= 0 THEN t
    ELSE CHOOSE r \in {scroll_down_loop(nt, k - 1) : nt \in {term_scroll_down(t)}} : TRUE

csi_scroll_up(t) == scroll_up_loop(t, Rounds(Count(t)))

csi_scroll_down(t) == scroll_down_loop(t, Rounds(Count(t)))

RECURSIVE insert_line_loop(_, _)
insert_line_loop(t, k) ==
    IF k <= 0 THEN t
    ELSE CHOOSE r \in {insert_line_loop(nt, k - 1) :
             nt \in {BlankRow(ShiftRowsDown(t, t.cursor_y, t.scroll_bottom), t.cursor_y)}} : TRUE

RECURSIVE delete_line_loop(_, _)
delete_line_loop(t, k) ==
    IF k <= 0 THEN t
    ELSE CHOOSE r \in {delete_line_loop(nt, k - 1) :
             nt \in {BlankRow(ShiftRowsUp(t, t.cursor_y, t.scroll_bottom), t.scroll_bottom)}} : TRUE

csi_insert_line(t) == insert_line_loop(t, Rounds(Count(t)))

csi_delete_line(t) == delete_line_loop(t, Rounds(Count(t)))

\* for (i = 0; i < count && cursor_x + i < TERM_COLS; i++) blank cells[cursor_y][cursor_x + i]
csi_erase_chars(t) ==
    LET count == Count(t)
        x1 == t.cursor_x
        x2 == IF x1 >= 0 /\ count - 1 > INT_MAX - x1
              THEN TERM_COLS - 1
              ELSE Min(TERM_COLS - 1, x1 + (count - 1))
    IN  BlankCols(t, t.cursor_y, x1, x2)

\* for (x = cursor_x; x < TERM_COLS - count; x++) cells[cursor_y][x] = cells[cursor_y][x + count];
\* for (x = TERM_COLS - count; x < TERM_COLS; x++) blank cells[cursor_y][x]
csi_delete_chars(t) ==
    LET count == Count(t)
        y == t.cursor_y
        x1 == t.cursor_x
        x2 == (TERM_COLS - count) - 1
        hit(i) == Near(y) /\ x1 <= i - y * MAX_TERM_COLS /\ i - y * MAX_TERM_COLS <= x2
        outside == x1 <= x2 /\ (~InStore(y, x1) \/ ~InStore(y, TERM_COLS - 1))
        shifted == [t EXCEPT
                       !.cells = [i \in 0..(NCells - 1) |->
                                     IF hit(i) /\ i + count < NCells
                                     THEN t.cells[i + count] ELSE t.cells[i]],
                       !.fault = @ \/ outside,
                       !.stray = @ \/ (x1 <= x2 /\ (~InGrid(y, x1) \/ ~InGrid(y, TERM_COLS - 1)))]
    IN  BlankCols(shifted, y, TERM_COLS - count, TERM_COLS - 1)

\* for (x = TERM_COLS - 1; x >= cursor_x + count; x--) cells[cursor_y][x] = cells[cursor_y][x - count];
\* for (x = cursor_x; x < cursor_x + count && x < TERM_COLS; x++) blank cells[cursor_y][x]
csi_insert_chars(t) ==
    LET count == Count(t)
        y == t.cursor_y
        overflow == t.cursor_x > 0 /\ count > INT_MAX - t.cursor_x
        x1 == t.cursor_x + count
        x2 == TERM_COLS - 1
        hit(i) == Near(y) /\ x1 <= i - y * MAX_TERM_COLS /\ i - y * MAX_TERM_COLS <= x2
        outside == x1 <= x2 /\ (~InStore(y, t.cursor_x) \/ ~InStore(y, x2))
        shifted == [t EXCEPT
                       !.cells = [i \in 0..(NCells - 1) |->
                                     IF hit(i) /\ i - count >= 0
                                     THEN t.cells[i - count] ELSE t.cells[i]],
                       !.fault = @ \/ outside,
                       !.stray = @ \/ (x1 <= x2 /\ (~InGrid(y, t.cursor_x) \/ ~InGrid(y, x2)))]
    IN  IF overflow THEN [t EXCEPT !.fault = TRUE, !.stray = TRUE]
        ELSE BlankCols(shifted, y, t.cursor_x, Min(x1, TERM_COLS) - 1)

RECURSIVE decimal(_)
\* the digits "%d" prints for n >= 0, as ASCII bytes
decimal(n) == IF n < 10 THEN <<48 + n>> ELSE Append(decimal(n \div 10), 48 + (n % 10))

\* what "%d" prints for a C int
format_d(n) ==
    IF n >= 0 THEN decimal(n)
    ELSE IF n = INT_MIN THEN <<45>> \o decimal(214748364) \o <<56>>
    ELSE <<45>> \o decimal(-n)

\* if (master_fd >= 0) write(master_fd, bytes)
master_write(t, bytes) ==
    IF t.master_fd >= 0 THEN [t EXCEPT !.written = @ \o bytes] ELSE t

\* csi_device_status reporting column before row
csi_device_status_swapped(t) ==
    LET n == t.num_escape_params
        p0 == t.escape_params[0]
    IN  IF n > 0 /\ p0 = 6 THEN
            master_write(t, <<ESC, 91>> \o format_d(AddW32(t.cursor_x, 1)) \o <<59>>
                            \o format_d(AddW32(t.cursor_y, 1)) \o <<82>>)
        ELSE IF n > 0 /\ p0 = 5 THEN master_write(t, <<ESC, 91, 48, 110>>)
        ELSE t

csi_device_status(t) ==
    LET n == t.num_escape_params
        p0 == t.escape_params[0]
    IN  IF n > 0 /\ p0 = 6 THEN
            master_write(t, <<ESC, 91>> \o format_d(AddW32(t.cursor_y, 1)) \o <<59>>
                            \o format_d(AddW32(t.cursor_x, 1)) \o <<82>>)
        ELSE IF n > 0 /\ p0 = 5 THEN master_write(t, <<ESC, 91, 48, 110>>)
        ELSE t

\* csi_device_attributes that never answers
csi_device_attributes_mute(t) == t

csi_device_attributes(t) == master_write(t, <<ESC, 91, 63, 49, 59, 50, 99>>)

\* switch (final) of term_handle_csi; final is the final byte's code
term_handle_csi(t, final) ==
    CASE final = 72 \/ final = 102 -> csi_cursor_position(t)     \* 'H' 'f'
      [] final = 65 -> csi_cursor_up(t)                            \* 'A'
      [] final = 66 -> csi_cursor_down(t)                          \* 'B'
      [] final = 67 -> csi_cursor_forward(t)                       \* 'C'
      [] final = 68 -> csi_cursor_backward(t)                      \* 'D'
      [] final = 74 -> csi_erase_display(t)                        \* 'J'
      [] final = 75 -> csi_erase_line(t)                           \* 'K'
      [] final = 109 -> csi_sgr(t)                                 \* 'm'
      [] final = 104 -> csi_set_mode(t)                            \* 'h'
      [] final = 108 -> csi_reset_mode(t)                          \* 'l'
      [] final = 114 -> csi_set_scroll_region(t)                   \* 'r'
      [] final = 100 -> csi_line_absolute(t)                       \* 'd'
      [] final = 71 -> csi_column_absolute(t)                      \* 'G'
      [] final = 83 -> csi_scroll_up(t)                            \* 'S'
      [] final = 84 -> csi_scroll_down(t)                          \* 'T'
      [] final = 76 -> csi_insert_line(t)                          \* 'L'
      [] final = 77 -> csi_delete_line(t)                          \* 'M'
      [] final = 88 -> csi_erase_chars(t)                          \* 'X'
      [] final = 80 -> csi_delete_chars(t)                         \* 'P'
      [] final = 64 -> csi_insert_chars(t)                         \* '@'
      [] final = 110 -> csi_device_status(t)                       \* 'n'
      [] final = 99 -> csi_device_attributes(t)                    \* 'c'
      [] OTHER -> t

(***************************************************************************)
(* term_process_char                                                       *)
(***************************************************************************)
\* utf8_accumulate leaving the decoded bytes in the accumulator
utf8_accumulate_full(t, ch) ==
    LET len == t.utf8_buf_len
        buf == [t.utf8_buf EXCEPT ![len] = ch]
    IN  IF len > 3 THEN [t EXCEPT !.fault = TRUE]
        ELSE IF len + 1 >= expected_len(buf[0])
        THEN [term_putchar([t EXCEPT !.utf8_buf = buf], utf8_decode(buf))
                 EXCEPT !.utf8_buf_len = len + 1]
        ELSE [t EXCEPT !.utf8_buf = buf, !.utf8_buf_len = len + 1]

\* case STATE_NORMAL, ch >= 32: accumulate, and decode a complete sequence
utf8_accumulate(t, ch) ==
    LET len == t.utf8_buf_len
        buf == [t.utf8_buf EXCEPT ![len] = ch]
    IN  IF len > 3 THEN [t EXCEPT !.fault = TRUE]
        ELSE IF len + 1 >= expected_len(buf[0])
        THEN [term_putchar([t EXCEPT !.utf8_buf = buf], utf8_decode(buf))
                 EXCEPT !.utf8_buf_len = 0]
        ELSE [t EXCEPT !.utf8_buf = buf, !.utf8_buf_len = len + 1]

process_normal(t, ch) ==
    IF ch = ESC THEN
        [t EXCEPT !.state = "STATE_ESC", !.escape_buf_len = 0, !.utf8_buf_len = 0]
    ELSE IF ch = 10 THEN [term_newline(t) EXCEPT !.utf8_buf_len = 0]
    ELSE IF ch = 13 THEN [term_carriage_return(t) EXCEPT !.utf8_buf_len = 0]
    ELSE IF ch = 8 THEN
        [t EXCEPT !.cursor_x = IF @ > 0 THEN @ - 1 ELSE @, !.utf8_buf_len = 0]
    ELSE IF ch = 9 THEN
        LET x == (AddW32(t.cursor_x, 8) \div 8) * 8
        IN  IF x >= TERM_COLS
            THEN [term_newline([t EXCEPT !.cursor_x = 0]) EXCEPT !.utf8_buf_len = 0]
            ELSE [t EXCEPT !.cursor_x = x, !.utf8_buf_len = 0]
    ELSE IF ch >= 32 THEN utf8_accumulate(t, ch)
    ELSE t

\* process_esc entering Csi without clearing the parameters collected before
process_esc_keep(t, ch) ==
    IF ch = 91 THEN [t EXCEPT !.state = "STATE_CSI", !.private_mode = 0, !.escape_buf_len = 0]
    ELSE IF ch = 93 THEN [t EXCEPT !.state = "STATE_OSC", !.escape_buf_len = 0]
    ELSE [t EXCEPT !.state = "STATE_NORMAL"]

process_esc(t, ch) ==
    IF ch = 91 THEN
        [t EXCEPT !.state = "STATE_CSI",
                  !.num_escape_params = 0,
                  !.private_mode = 0,
                  !.escape_params = [i \in 0..(MAX_ESCAPE_PARAMS - 1) |-> 0],
                  !.escape_buf_len = 0]
    ELSE IF ch = 93 THEN [t EXCEPT !.state = "STATE_OSC", !.escape_buf_len = 0]
    ELSE IF ch = 40 THEN [t EXCEPT !.state = "STATE_NORMAL"]
    ELSE [t EXCEPT !.state = "STATE_NORMAL"]

\* process_csi with a final byte 'E' that moves the cursor down
process_csi_cnl(t, ch) ==
    IF ch >= 48 /\ ch <= 57 THEN
        LET n == IF t.num_escape_params = 0 THEN 1 ELSE t.num_escape_params
        IN  [t EXCEPT !.num_escape_params = n,
                      !.escape_params[n - 1] = Mul10AddW32(@, ch - 48)]
    ELSE IF ch = 59 THEN
        IF t.num_escape_params < MAX_ESCAPE_PARAMS
        THEN [t EXCEPT !.num_escape_params = @ + 1]
        ELSE t
    ELSE IF ch = 63 THEN [t EXCEPT !.private_mode = 1]
    ELSE IF ch = 69 THEN
        [csi_cursor_down(t) EXCEPT !.state = "STATE_NORMAL", !.private_mode = 0]
    ELSE IF ch >= 64 /\ ch <= 126 THEN
        [term_handle_csi(t, ch) EXCEPT !.state = "STATE_NORMAL", !.private_mode = 0]
    ELSE IF ch >= 32 /\ ch <= 47 THEN t
    ELSE [t EXCEPT !.state = "STATE_NORMAL", !.private_mode = 0]

process_csi(t, ch) ==
    IF ch >= 48 /\ ch <= 57 THEN
        LET n == IF t.num_escape_params = 0 THEN 1 ELSE t.num_escape_params
        IN  [t EXCEPT !.num_escape_params = n,
                      !.escape_params[n - 1] = Mul10AddW32(@, ch - 48)]
    ELSE IF ch = 59 THEN
        IF t.num_escape_params < MAX_ESCAPE_PARAMS
        THEN [t EXCEPT !.num_escape_params = @ + 1]
        ELSE t
    ELSE IF ch = 63 THEN [t EXCEPT !.private_mode = 1]
    ELSE IF ch >= 64 /\ ch <= 126 THEN
        [term_handle_csi(t, ch) EXCEPT !.state = "STATE_NORMAL", !.private_mode = 0]
    ELSE IF ch >= 32 /\ ch <= 47 THEN t
    ELSE [t EXCEPT !.state = "STATE_NORMAL", !.private_mode = 0]

\* process_osc ended by BEL only
process_osc_bel(t, ch) ==
    IF ch = BEL THEN [t EXCEPT !.state = "STATE_NORMAL"] ELSE t

process_osc(t, ch) ==
    IF ch = BEL \/ ch = ESC THEN [t EXCEPT !.state = "STATE_NORMAL"] ELSE t

term_process_char(t, ch) ==
    CASE t.state = "STATE_NORMAL" -> process_normal(t, ch)
      [] t.state = "STATE_ESC" -> process_esc(t, ch)
      [] t.state = "STATE_CSI" -> process_csi(t, ch)
      [] t.state = "STATE_OSC" -> process_osc(t, ch)

RECURSIVE Feed(_, _)
\* for (i = 0; i < n; i++) term_process_char(&term, buf[i])
\* (the singleton set binds the state after each byte, so that it is computed once)
Feed(t, bytes) ==
    IF bytes = <<>> THEN t
    ELSE CHOOSE r \in {Feed(nt, Tail(bytes)) :
                          nt \in {term_process_char(t, Head(bytes))}} : TRUE

(***************************************************************************)
(* fb_map.c: the keyboard mapper.                                          *)
(***************************************************************************)
\* key codes of <linux/input.h> that the mapper names
KEY_ESC == 1
KEY_1 == 2
KEY_9 == 10
KEY_0 == 11
KEY_MINUS == 12
KEY_EQUAL == 13
KEY_BACKSPACE == 14
KEY_TAB == 15
KEY_Q == 16
KEY_W == 17
KEY_E == 18
KEY_R == 19
KEY_U == 22
KEY_LEFTBRACE == 26
KEY_RIGHTBRACE == 27
KEY_ENTER == 28
KEY_LEFTCTRL == 29
KEY_A == 30
KEY_D == 32
KEY_K == 37
KEY_L == 38
KEY_SEMICOLON == 39
KEY_APOSTROPHE == 40
KEY_GRAVE == 41
KEY_LEFTSHIFT == 42
KEY_BACKSLASH == 43
KEY_Z == 44
KEY_C == 46
KEY_COMMA == 51
KEY_DOT == 52
KEY_SLASH == 53
KEY_RIGHTSHIFT == 54
KEY_LEFTALT == 56
KEY_SPACE == 57
KEY_RIGHTCTRL == 97
KEY_RIGHTALT == 100
KEY_HOME == 102
KEY_UP == 103
KEY_PAGEUP == 104
KEY_LEFT == 105
KEY_RIGHT == 106
KEY_END == 107
KEY_DOWN == 108
KEY_PAGEDOWN == 109
KEY_INSERT == 110
KEY_DELETE == 111
MOD_CTRL == 1
MOD_ALT == 2
MOD_SHIFT == 4

\* length of escape_buf
ESCAPE_BUF_LEN == 16

\* the statics after kb_init (last_char keeps its static initialiser)
kb_init ==
    [ctrl_pressed |-> 0, alt_pressed |-> 0, shift_pressed |-> 0,
     escape_state |-> 0, escape_buf |-> [i \in 0..(ESCAPE_BUF_LEN - 1) |-> 0],
     escape_buf_len |-> 0, last_char |-> 0]

kb_handle_release(k, keycode) ==
    LET k1 == IF keycode = KEY_LEFTCTRL \/ keycode = KEY_RIGHTCTRL
              THEN [k EXCEPT !.ctrl_pressed = 0] ELSE k
        k2 == IF keycode = KEY_LEFTSHIFT \/ keycode = KEY_RIGHTSHIFT
              THEN [k1 EXCEPT !.shift_pressed = 0] ELSE k1
    IN  IF keycode = KEY_LEFTALT \/ keycode = KEY_RIGHTALT
        THEN [k2 EXCEPT !.alt_pressed = 0] ELSE k2

\* "!@#$%^&*("
ShiftedDigits == <<33, 64, 35, 36, 37, 94, 38, 42, 40>>

\* the symbol keys: key code, plain byte, shifted byte
SymbolKeys ==
    {<<KEY_MINUS, 45, 95>>, <<KEY_EQUAL, 61, 43>>, <<KEY_LEFTBRACE, 91, 123>>,
     <<KEY_RIGHTBRACE, 93, 125>>, <<KEY_SEMICOLON, 59, 58>>,
     <<KEY_APOSTROPHE, 39, 34>>, <<KEY_GRAVE, 96, 126>>, <<KEY_BACKSLASH, 92, 124>>,
     <<KEY_COMMA, 44, 60>>, <<KEY_DOT, 46, 62>>, <<KEY_SLASH, 47, 63>>}

\* the keys answered whatever the modifiers
FixedKeys ==
    {<<KEY_UP, <<27, 91, 65>>>>, <<KEY_DOWN, <<27, 91, 66>>>>,
     <<KEY_RIGHT, <<27, 91, 67>>>>, <<KEY_LEFT, <<27, 91, 68>>>>,
     <<KEY_HOME, <<27, 91, 72>>>>, <<KEY_END, <<27, 91, 70>>>>,
     <<KEY_PAGEUP, <<27, 91, 53, 126>>>>, <<KEY_PAGEDOWN, <<27, 91, 54, 126>>>>,
     <<KEY_INSERT, <<27, 91, 50, 126>>>>, <<KEY_DELETE, <<27, 91, 51, 126>>>>,
     <<KEY_ENTER, <<13>>>>, <<KEY_TAB, <<9>>>>, <<KEY_BACKSPACE, <<127>>>>,
     <<KEY_ESC, <<27>>>>, <<KEY_SPACE, <<32>>>>}

\* the keys answered with a control byte while Ctrl is held
CtrlKeys ==
    {<<KEY_C, 3>>, <<KEY_D, 4>>, <<KEY_Z, 26>>, <<KEY_L, 12>>, <<KEY_A, 1>>,
     <<KEY_E, 5>>, <<KEY_K, 11>>, <<KEY_U, 21>>, <<KEY_W, 23>>, <<KEY_R, 18>>}

\* the state and the returned string of kb_get_sequence(keycode)
kb_get_sequence(k, keycode) ==
    IF keycode = KEY_LEFTCTRL \/ keycode = KEY_RIGHTCTRL
        THEN [kb |-> [k EXCEPT !.ctrl_pressed = 1], seq |-> <<>>]
    ELSE IF keycode = KEY_LEFTSHIFT \/ keycode = KEY_RIGHTSHIFT
        THEN [kb |-> [k EXCEPT !.shift_pressed = 1], seq |-> <<>>]
    ELSE IF keycode = KEY_LEFTALT \/ keycode = KEY_RIGHTALT
        THEN [kb |-> [k EXCEPT !.alt_pressed = 1], seq |-> <<>>]
    ELSE IF \E e \in FixedKeys : e[1] = keycode
        THEN [kb |-> k, seq |-> (CHOOSE e \in FixedKeys : e[1] = keycode)[2]]
    ELSE IF k.ctrl_pressed # 0 /\ \E e \in CtrlKeys : e[1] = keycode
        THEN [kb |-> k, seq |-> <<(CHOOSE e \in CtrlKeys : e[1] = keycode)[2]>>]
    ELSE IF keycode >= KEY_A /\ keycode <= KEY_Z
        THEN [kb |-> k,
              seq |-> <<(IF k.shift_pressed # 0 THEN 65 ELSE 97) + (keycode - KEY_A)>>]
    ELSE IF keycode >= KEY_1 /\ keycode <= KEY_9
        THEN [kb |-> k,
              seq |-> <<IF k.shift_pressed # 0 THEN ShiftedDigits[keycode - KEY_1 + 1]
                        ELSE 49 + (keycode - KEY_1)>>]
    ELSE IF keycode = KEY_0
        THEN [kb |-> k, seq |-> <<IF k.shift_pressed # 0 THEN 41 ELSE 48>>]
    ELSE IF \E e \in SymbolKeys : e[1] = keycode
        THEN LET e == CHOOSE s \in SymbolKeys : s[1] = keycode
             IN  [kb |-> k, seq |-> <<IF k.shift_pressed # 0 THEN e[3] ELSE e[2]>>]
    ELSE [kb |-> k, seq |-> <<>>]

\* the names of enum KeyAction
KeyActions ==
    {"ACTION_NONE", "ACTION_COPY", "ACTION_PASTE", "ACTION_SCROLL_UP",
     "ACTION_SCROLL_DOWN", "ACTION_CLEAR_SCREEN", "ACTION_QUIT",
     "ACTION_INCREASE_FONT", "ACTION_DECREASE_FONT"}

\* *modifiers as kb_process_input sets it on entry
kb_modifiers(k) ==
    (IF k.ctrl_pressed # 0 THEN MOD_CTRL ELSE 0)
    + (IF k.alt_pressed # 0 THEN MOD_ALT ELSE 0)
    + (IF k.shift_pressed # 0 THEN MOD_SHIFT ELSE 0)

\* what kb_process_input hands back: statics, return value, output[0..len-1]
KbResult(k, action, output) == [kb |-> k, action |-> action, output |-> output]

\* a plain char holding byte ch
AsChar(ch) == IF ch >= 128 THEN ch - 256 ELSE ch

\* the branch if (escape_state > 0)
kb_escape(k, ch) ==
    LET k1 == [k EXCEPT !.escape_buf[k.escape_buf_len] = AsChar(ch),
                        !.escape_buf_len = @ + 1]
        idle == [k1 EXCEPT !.escape_state = 0, !.escape_buf_len = 0]
        d1 == k1.escape_buf[1] - 48
        code == IF k1.escape_buf_len >= 2
                THEN (IF k1.escape_buf_len = 3
                      THEN d1 * 10 + (k1.escape_buf[2] - 48) ELSE d1)
                ELSE 0
    IN  IF k1.escape_state = 2 /\ ch >= 65 /\ ch <= 68
            THEN KbResult(idle, "ACTION_NONE", <<27, 91, ch>>)
        ELSE IF k1.escape_state = 2 /\ ch = 126 THEN
            CASE code = 1 -> KbResult(idle, "ACTION_NONE", <<27, 91, 72>>)
              [] code = 2 -> KbResult(idle, "ACTION_NONE", <<27, 91, 50, 126>>)
              [] code = 3 -> KbResult(idle, "ACTION_NONE", <<27, 91, 51, 126>>)
              [] code = 4 -> KbResult(idle, "ACTION_NONE", <<27, 91, 70>>)
              [] code = 5 -> IF k.ctrl_pressed # 0
                             THEN KbResult(idle, "ACTION_SCROLL_UP", <<>>)
                             ELSE KbResult(idle, "ACTION_NONE", <<27, 91, 53, 126>>)
              [] code = 6 -> IF k.ctrl_pressed # 0
                             THEN KbResult(idle, "ACTION_SCROLL_DOWN", <<>>)
                             ELSE KbResult(idle, "ACTION_NONE", <<27, 91, 54, 126>>)
              [] OTHER -> KbResult(idle, "ACTION_NONE", <<>>)
        ELSE IF k1.escape_buf_len < ESCAPE_BUF_LEN - 1
            THEN KbResult(k1, "ACTION_NONE", <<>>)
        ELSE KbResult(idle, "ACTION_NONE", <<>>)

\* the branch if (ch < 32)
kb_control(k, ch) ==
    LET k1 == [k EXCEPT !.ctrl_pressed = 1, !.last_char = ch]
    IN  CASE ch = 12 -> KbResult(k1, "ACTION_CLEAR_SCREEN", <<ch>>)
          [] ch = 17 -> KbResult(k1, "ACTION_QUIT", <<>>)
          [] ch = 25 -> KbResult(k1, "ACTION_PASTE", <<ch>>)
          [] ch = 31 -> KbResult(k1, "ACTION_DECREASE_FONT", <<>>)
          [] OTHER -> KbResult(k1, "ACTION_NONE", <<ch>>)

kb_process_input(k, ch) ==
    IF k.escape_state > 0 THEN kb_escape(k, ch)
    ELSE IF ch = 27 THEN
        KbResult([k EXCEPT !.escape_state = 1, !.escape_buf[0] = AsChar(ch),
                           !.escape_buf_len = 1], "ACTION_NONE", <<>>)
    ELSE IF k.escape_state = 1 /\ ch = 91 THEN
        KbResult([k EXCEPT !.escape_state = 2], "ACTION_NONE", <<>>)
    ELSE IF ch < 32 THEN kb_control(k, ch)
    ELSE IF ch = 61 /\ k.last_char < 32 /\ k.last_char # 0 THEN
        KbResult([k EXCEPT !.last_char = 0], "ACTION_INCREASE_FONT", <<>>)
    ELSE IF ch = 45 /\ k.last_char < 32 /\ k.last_char # 0 THEN
        KbResult([k EXCEPT !.last_char = 0], "ACTION_DECREASE_FONT", <<>>)
    ELSE
        KbResult([k EXCEPT !.ctrl_pressed = IF k.ctrl_pressed # 0 /\ ch >= 32 THEN 0 ELSE @,
                           !.last_char = ch], "ACTION_NONE", <<ch>>)

(***************************************************************************)
(* The program: main boots the terminal, then feeds it every byte read     *)
(* from the PTY master, in order.                                          *)
(***************************************************************************)
\* the descriptor forkpty hands to main
MasterFd == 3

\* term_init(&term); ...; term.master_fd = master_fd;
Boot == [term_init EXCEPT !.master_fd = MasterFd]

\* one iteration of the loop over buf[] in main: term_process_char(&term, buf[i])
ProcessChar ==
    /\ inp # <<>>
    /\ ~term.fault
    /\ term' = term_process_char(term, Head(inp))
    /\ inp' = Tail(inp)
    /\ done' = Append(done, Head(inp))
    /\ UNCHANGED <<TERM_COLS, TERM_ROWS, pre, kb, kbio, host, fb>>

Next == ProcessChar

(***************************************************************************)
(* main: start-up, the event loop, shutdown.  host holds main's locals,   *)
(* the flag running, and the other ends of its descriptors: what the user  *)
(* and the shell have still to write, and what waits to be read.           *)
(***************************************************************************)
\* sizeof(buf), on the scale of the model
BUF_SIZE == 2

\* font sizes are counted in half pixels, so that 5.5 and 72.5 exist
HalfPx == 2
FONT_MIN == 6
FONT_MAX == 72
FONT_DEFAULT == 16
MAX_FONTS == 4
\* the fallback fonts main tries to load after the primary font
FallbackFonts == MAX_FONTS - 1
CTRL_Q == 17

\* main about to test argc; nothing opened, the statics as loaded
host_start(argc, font_arg, stdin_src, shell_src) ==
    [pc |-> "args", argc |-> argc, font_arg |-> font_arg,
     user_font_size |-> 0, font_size_px |-> 0,
     fb_fd |-> FALSE, fb_mem |-> FALSE, num_fonts |-> 0, tried |-> 0, buffers |-> 0,
     master |-> FALSE, raw |-> FALSE, nonblock |-> FALSE,
     running |-> 1, needs_render |-> 0, rd_stdin |-> FALSE, rd_pty |-> FALSE,
     n |-> 0, exit_code |-> -1, log |-> <<>>,
     stdin_src |-> stdin_src, stdin_q |-> <<>>, typed |-> <<>>, to_master |-> <<>>,
     shell_src |-> shell_src, pty_q |-> <<>>, read |-> <<>>,
     child |-> "none", sigchld |-> FALSE, shown |-> 0, frames |-> 0]

\* main inside the event loop, just started
host_looping(stdin_src, shell_src) ==
    [host_start(2, 0, stdin_src, shell_src) EXCEPT
        !.pc = "loop_top", !.font_size_px = FONT_DEFAULT * HalfPx,
        !.fb_fd = TRUE, !.fb_mem = TRUE, !.num_fonts = 1, !.buffers = 1,
        !.tried = FallbackFonts,
        !.master = TRUE, !.raw = TRUE, !.nonblock = TRUE, !.needs_render = 1,
        !.child = "alive", !.log = <<"fb_clear", "hide_cursor", "raw">>]

\* main inside the for loop that feeds buf[] to the parser
host_feeding == [host_looping(<<>>, <<>>) EXCEPT !.pc = "process"]

Exit(h, code) == [h EXCEPT !.pc = "exit", !.exit_code = code]

\* fb_close(&fb)
fb_close(h) == [h EXCEPT !.fb_mem = FALSE, !.fb_fd = FALSE, !.log = Append(@, "fb_close")]

\* argc test, init_color_palette, kb_init, font size argument
ParseArgs ==
    /\ host.pc = "args"
    /\ IF host.argc < 2 THEN host' = Exit(host, 1) /\ kb' = kb
       ELSE /\ kb' = kb_init
            /\ IF host.argc >= 3
               THEN IF host.font_arg < FONT_MIN * HalfPx \/ host.font_arg > FONT_MAX * HalfPx
                    THEN host' = Exit([host EXCEPT !.user_font_size = host.font_arg], 1)
                    ELSE host' = [host EXCEPT !.user_font_size = host.font_arg,
                                              !.pc = "fb_open"]
               ELSE host' = [host EXCEPT !.pc = "fb_open"]
    /\ UNCHANGED <<TERM_COLS, TERM_ROWS, term, pre, inp, done, kbio, fb>>

\* fb_open: on failure it has closed what it opened
FbOpen ==
    /\ host.pc = "fb_open"
    /\ \E ok \in BOOLEAN :
        host' = IF ok THEN [host EXCEPT !.fb_fd = TRUE, !.fb_mem = TRUE, !.pc = "primary_font"]
                ELSE Exit(host, 1)
    /\ UNCHANGED <<TERM_COLS, TERM_ROWS, term, pre, inp, done, kb, kbio, fb>>

\* load_font of the primary font
LoadPrimaryFont ==
    /\ host.pc = "primary_font"
    /\ \E ok \in BOOLEAN :
        host' = IF ok THEN [host EXCEPT !.num_fonts = 1, !.buffers = 1, !.pc = "fallback_fonts"]
                ELSE Exit(fb_close(host), 1)
    /\ UNCHANGED <<TERM_COLS, TERM_ROWS, term, pre, inp, done, kb, kbio, fb>>

\* load_font of one fallback font; a font that fails to load takes no slot
LoadFallbackFont ==
    /\ host.pc = "fallback_fonts"
    /\ host.tried < FallbackFonts
    /\ \E ok \in BOOLEAN :
        host' = IF ok /\ host.num_fonts < MAX_FONTS THEN [host EXCEPT !.tried = @ + 1, !.num_fonts = @ + 1, !.buffers = @ + 1]
                ELSE [host EXCEPT !.tried = @ + 1]
    /\ UNCHANGED <<TERM_COLS, TERM_ROWS, term, pre, inp, done, kb, kbio, fb>>

\* font_size_px, the grid size, fb_clear, term_init, signal
InitTerminal ==
    /\ host.pc = "fallback_fonts"
    /\ host.tried = FallbackFonts
    /\ host' = [host EXCEPT !.font_size_px = IF host.user_font_size > 0
                                             THEN host.user_font_size
                                             ELSE FONT_DEFAULT * HalfPx,
                            !.log = Append(@, "fb_clear"),
                            !.pc = "spawn"]
    /\ term' = term_init
    /\ UNCHANGED <<TERM_COLS, TERM_ROWS, pre, inp, done, kb, kbio, fb>>

\* spawn_shell, term.master_fd, hide cursor, raw mode, O_NONBLOCK on stdin
SpawnShell ==
    /\ host.pc = "spawn"
    /\ \E ok \in BOOLEAN :
        IF ok
        THEN /\ host' = [host EXCEPT !.master = TRUE, !.child = "alive",
                                     !.raw = TRUE, !.nonblock = TRUE,
                                     !.log = @ \o <<"hide_cursor", "raw">>,
                                     !.needs_render = 1, !.pc = "loop_top"]
             /\ term' = [term EXCEPT !.master_fd = MasterFd]
        ELSE /\ host' = Exit(fb_close(host), 1)
             /\ term' = term
    /\ UNCHANGED <<TERM_COLS, TERM_ROWS, pre, inp, done, kb, kbio, fb>>

\* a loop that never tests running
LoopTop_blind ==
    /\ host.pc = "loop_top"
    /\ host' = [host EXCEPT !.pc = "select"]
    /\ UNCHANGED <<TERM_COLS, TERM_ROWS, term, pre, inp, done, kb, kbio, fb>>

\* while (running)
LoopTop ==
    /\ host.pc = "loop_top"
    /\ host' = [host EXCEPT !.pc = IF host.running # 0 THEN "select" ELSE "shutdown"]
    /\ UNCHANGED <<TERM_COLS, TERM_ROWS, term, pre, inp, done, kb, kbio, fb>>

\* the master is readable when bytes wait or the slave side is closed
StdinReadable(h) == h.stdin_q # <<>>
MasterReadable(h) == h.pty_q # <<>> \/ h.child = "exited"

\* select: the descriptors that are ready, or none (timeout, or EINTR)
Select ==
    /\ host.pc = "select"
    /\ \E timeout \in BOOLEAN :
        host' = IF ~timeout /\ (StdinReadable(host) \/ MasterReadable(host))
                THEN [host EXCEPT !.rd_stdin = StdinReadable(host),
                                  !.rd_pty = MasterReadable(host),
                                  !.pc = "stdin"]
                ELSE [host EXCEPT !.rd_stdin = FALSE, !.rd_pty = FALSE, !.pc = "render"]
    /\ UNCHANGED <<TERM_COLS, TERM_ROWS, term, pre, inp, done, kb, kbio, fb>>

\* the first n elements of s, and the rest
Take(s, n) == SubSeq(s, 1, Min(n, Len(s)))
Drop(s, n) == SubSeq(s, Min(n, Len(s)) + 1, Len(s))

\* buf[i] == 0x11 for some i < n
HasCtrlQ(b) == \E i \in 1..Len(b) : b[i] = CTRL_Q

\* if (FD_ISSET(STDIN_FILENO)): one read, the scan for Ctrl+Q, the write
StdinInput ==
    /\ host.pc = "stdin"
    /\ IF host.rd_stdin /\ host.stdin_q # <<>>
       THEN LET b == Take(host.stdin_q, BUF_SIZE)
                run == IF HasCtrlQ(b) THEN 0 ELSE host.running
            IN  host' = [host EXCEPT !.stdin_q = Drop(@, BUF_SIZE),
                                     !.typed = @ \o b,
                                     !.running = run,
                                     !.to_master = IF run # 0 THEN @ \o b ELSE @,
                                     !.pc = "drain"]
       ELSE host' = [host EXCEPT !.pc = "drain"]
    /\ UNCHANGED <<TERM_COLS, TERM_ROWS, term, pre, inp, done, kb, kbio, fb>>

\* a read that starts the parser and the decoder afresh
PtyRead_reset ==
    /\ host.pc = "drain"
    /\ IF ~host.rd_pty THEN host' = [host EXCEPT !.pc = "render"] /\ inp' = inp
       ELSE IF host.pty_q # <<>>
       THEN LET b == Take(host.pty_q, BUF_SIZE)
            IN  /\ host' = [host EXCEPT !.pty_q = Drop(@, BUF_SIZE), !.n = Len(b),
                                        !.read = @ \o b, !.pc = "process"]
                /\ inp' = b
       ELSE IF host.child = "exited"
       THEN /\ \E eof \in BOOLEAN :
                host' = [host EXCEPT !.n = IF eof THEN 0 ELSE -1,
                                     !.running = IF eof THEN 0 ELSE @,
                                     !.pc = "render"]
            /\ inp' = inp
       ELSE host' = [host EXCEPT !.n = -1, !.pc = "render"] /\ inp' = inp
    /\ term' = [term EXCEPT !.state = "STATE_NORMAL", !.utf8_buf_len = 0]
    /\ UNCHANGED <<TERM_COLS, TERM_ROWS, pre, done, kb, kbio, fb>>

\* if (FD_ISSET(master_fd)), and one read(master_fd, buf, sizeof(buf)):
\* n > 0 fills buf, n == 0 clears running, n < 0 (EAGAIN, EIO) leaves the loop
PtyRead ==
    /\ host.pc = "drain"
    /\ IF ~host.rd_pty THEN host' = [host EXCEPT !.pc = "render"] /\ inp' = inp
       ELSE IF host.pty_q # <<>>
       THEN LET b == Take(host.pty_q, BUF_SIZE)
            IN  /\ host' = [host EXCEPT !.pty_q = Drop(@, BUF_SIZE), !.n = Len(b),
                                        !.read = @ \o b, !.pc = "process"]
                /\ inp' = b
       ELSE IF host.child = "exited"
       THEN /\ \E eof \in BOOLEAN :
                host' = [host EXCEPT !.n = IF eof THEN 0 ELSE -1,
                                     !.running = IF eof THEN 0 ELSE @,
                                     !.pc = "render"]
            /\ inp' = inp
       ELSE host' = [host EXCEPT !.n = -1, !.pc = "render"] /\ inp' = inp
    /\ UNCHANGED <<TERM_COLS, TERM_ROWS, term, pre, done, kb, kbio, fb>>

\* term_process_char(&term, buf[i]) for the next i
DrainFeed ==
    /\ host.pc = "process"
    /\ ProcessChar

\* a drain that may leave the for loop before buf is used up
DrainNext_early ==
    /\ host.pc = "process"
    /\ host' = [host EXCEPT !.needs_render = 1,
                            !.pc = IF host.n < BUF_SIZE THEN "render" ELSE "drain"]
    /\ UNCHANGED <<TERM_COLS, TERM_ROWS, term, pre, inp, done, kb, kbio, fb>>

\* after the for loop: needs_render = 1; read again only when buf was full
DrainNext ==
    /\ host.pc = "process"
    /\ inp = <<>>
    /\ host' = [host EXCEPT !.needs_render = 1,
                            !.pc = IF host.n < BUF_SIZE THEN "render" ELSE "drain"]
    /\ UNCHANGED <<TERM_COLS, TERM_ROWS, term, pre, inp, done, kb, kbio, fb>>

\* if (needs_render) { term_render(...); needs_render = 0; }
Render ==
    /\ host.pc = "render"
    /\ host' = IF host.needs_render # 0
               THEN [host EXCEPT !.needs_render = 0, !.shown = Len(done),
                                 !.frames = (@ + 1) % 2, !.pc = "loop_top"]
               ELSE [host EXCEPT !.pc = "loop_top"]
    /\ UNCHANGED <<TERM_COLS, TERM_ROWS, term, pre, inp, done, kb, kbio, fb>>

\* after the loop: tcsetattr, show cursor, fb_clear, free, fb_close, close
Shutdown ==
    /\ host.pc = "shutdown"
    /\ host' = Exit([fb_close([host EXCEPT !.raw = FALSE, !.buffers = 0,
                                           !.log = @ \o <<"restore", "show_cursor",
                                                         "fb_clear", "free_fonts">>])
                     EXCEPT !.master = FALSE, !.log = Append(@, "close_master")], 0)
    /\ UNCHANGED <<TERM_COLS, TERM_ROWS, term, pre, inp, done, kb, kbio, fb>>

\* sigchld_handler, run when the kernel delivers the signal
SigchldHandler ==
    /\ host.sigchld
    /\ host.pc # "exit"
    /\ host' = [host EXCEPT !.sigchld = FALSE, !.running = 0]
    /\ UNCHANGED <<TERM_COLS, TERM_ROWS, term, pre, inp, done, kb, kbio, fb>>

\* the user's next byte reaches stdin
UserTypes ==
    /\ host.stdin_src # <<>>
    /\ host.pc \notin {"exit"}
    /\ host' = [host EXCEPT !.stdin_q = Append(@, Head(host.stdin_src)),
                            !.stdin_src = Tail(@)]
    /\ UNCHANGED <<TERM_COLS, TERM_ROWS, term, pre, inp, done, kb, kbio, fb>>

\* the shell writes its next byte to the slave side
ShellWrites ==
    /\ host.child = "alive"
    /\ host.shell_src # <<>>
    /\ host.pc # "exit"
    /\ host' = [host EXCEPT !.pty_q = Append(@, Head(host.shell_src)),
                            !.shell_src = Tail(@)]
    /\ UNCHANGED <<TERM_COLS, TERM_ROWS, term, pre, inp, done, kb, kbio, fb>>

\* the shell exits: the slave side closes and SIGCHLD becomes pending
ShellExits ==
    /\ host.child = "alive"
    /\ host.pc # "exit"
    /\ host' = [host EXCEPT !.child = "exited", !.sigchld = TRUE]
    /\ UNCHANGED <<TERM_COLS, TERM_ROWS, term, pre, inp, done, kb, kbio, fb>>

NextLoop ==
    \/ LoopTop \/ Select \/ StdinInput \/ PtyRead \/ DrainFeed \/ DrainNext
    \/ Render \/ Shutdown \/ SigchldHandler \/ UserTypes \/ ShellWrites \/ ShellExits

NextMain ==
    \/ ParseArgs \/ FbOpen \/ LoadPrimaryFont \/ LoadFallbackFont \/ InitTerminal
    \/ SpawnShell \/ NextLoop

\* the key that was last handled by the mapper, and what the mapper answered
NoKey == [op |-> "none", code |-> 0, seq |-> <<>>, action |-> "ACTION_NONE", held |-> {},
          fed |-> <<>>]

\* the key codes the keyboard sends: KEY_ESC up to KEY_DELETE
KeyCodes == KEY_ESC..KEY_DELETE

\* how many keys are held at once
MaxHeld == 2

\* a key press reported to kb_get_sequence
KeyPress ==
    /\ Cardinality(kbio.held) < MaxHeld
    /\ \E keycode \in KeyCodes :
        /\ keycode \notin kbio.held
        /\ LET r == kb_get_sequence(kb, keycode)
           IN  /\ kb' = r.kb
               /\ kbio' = [kbio EXCEPT !.op = "press", !.code = keycode, !.seq = r.seq,
                                       !.held = @ \cup {keycode}]
    /\ UNCHANGED <<TERM_COLS, TERM_ROWS, term, pre, inp, done, host, fb>>

\* a key release reported to kb_handle_release
KeyRelease ==
    /\ \E keycode \in kbio.held :
        /\ kb' = kb_handle_release(kb, keycode)
        /\ kbio' = [kbio EXCEPT !.op = "release", !.code = keycode, !.seq = <<>>,
                                !.held = @ \ {keycode}]
    /\ UNCHANGED <<TERM_COLS, TERM_ROWS, term, pre, inp, done, host, fb>>

NextKeys == KeyPress \/ KeyRelease

\* the next byte of stdin handed to kb_process_input
ProcessInput ==
    /\ inp # <<>>
    /\ LET r == kb_process_input(kb, Head(inp))
       IN  /\ kb' = r.kb
           /\ kbio' = [kbio EXCEPT !.op = "input", !.code = Head(inp), !.seq = r.output,
                                   !.action = r.action, !.fed = Append(@, Head(inp))]
    /\ inp' = Tail(inp)
    /\ UNCHANGED <<TERM_COLS, TERM_ROWS, term, pre, done, host, fb>>

NextInput == ProcessInput

\* the specifications of the terminal alone: main is feeding, the mapper idle
(***************************************************************************)
(* The framebuffer.  mem holds the bytes of the mapping [0, mem_size);     *)
(* beyond collects the byte offsets a store touched outside it.            *)
(***************************************************************************)
PIXEL_BYTES == 4    \* sizeof(uint32_t), the width of the store *pixel = color

\* byte i of a 32-bit word as the store lays it out in memory
WordByte(color, i) == (color \div (256 ^ i)) % 256

\* struct framebuffer with its geometry left out: the terminal, the mapper and
\* the event loop never consult it, only the pixel stores do
NoFramebuffer ==
    [width |-> 0, height |-> 0, bpp |-> 0, line_length |-> 0, mem_size |-> 0,
     mem |-> <<>>, beyond |-> {}]

\* struct framebuffer after fb_open on a device of the given geometry,
\* the mapping read back as zeroes
fb_open(width, height, bpp, line_length, mem_size) ==
    [width |-> width, height |-> height, bpp |-> bpp, line_length |-> line_length,
     mem_size |-> mem_size, mem |-> [i \in 0..(mem_size - 1) |-> 0], beyond |-> {}]

fb_put_pixel(f, x, y, color) ==
    IF x < 0 \/ x >= f.width \/ y < 0 \/ y >= f.height THEN f
    ELSE LET offset == y * f.line_length + x * (f.bpp \div 8)
         IN  IF offset + (f.bpp \div 8) > f.mem_size THEN f
             ELSE LET word == offset..(offset + PIXEL_BYTES - 1)
                  IN  [f EXCEPT
                         !.mem = [i \in DOMAIN f.mem |->
                                     IF i \in word THEN WordByte(color, i - offset)
                                     ELSE f.mem[i]],
                         !.beyond = @ \cup {i \in word : i >= f.mem_size}]

Detached == kb = kb_init /\ kbio = NoKey /\ host = host_feeding /\ fb = NoFramebuffer

(***************************************************************************)
(* Input streams.                                                          *)
(***************************************************************************)
\* ESC [ final
Csi0(final) == <<ESC, 91, final>>
\* ESC [ n final
Csi1(n, final) == <<ESC, 91>> \o decimal(n) \o <<final>>
\* ESC [ a ; b final
Csi2(a, b, final) == <<ESC, 91>> \o decimal(a) \o <<59>> \o decimal(b) \o <<final>>
\* ESC [ row ; col H, with the cell given 0-based
Goto(y, x) == Csi2(y + 1, x + 1, 72)

\* the letters 'a', 'b', ... one per visible cell, row by row
Letters == [i \in 1..(TERM_ROWS * TERM_COLS) |-> 96 + i]

\* every cell written with a distinct letter; odd rows bold, red on blue
RECURSIVE FillFrom(_)
FillFrom(y) ==
    IF y >= TERM_ROWS THEN <<>>
    ELSE (IF y % 2 = 1 THEN <<ESC, 91, 49, 59, 51, 49, 59, 52, 52, 109>>
                       ELSE <<ESC, 91, 109>>)
         \o [i \in 1..TERM_COLS |-> 96 + y * TERM_COLS + i]
         \o FillFrom(y + 1)
Fill == FillFrom(0)

\* all concatenations a \o b
Pairs(A, B) == {a \o b : a \in A, b \in B}

TypeOK ==
    /\ TERM_COLS \in MIN_TERM_COLS..MAX_TERM_COLS
    /\ TERM_ROWS \in MIN_TERM_ROWS..MAX_TERM_ROWS
    /\ term.state \in {"STATE_NORMAL", "STATE_ESC", "STATE_CSI", "STATE_OSC"}

(***************************************************************************)
(* Cursor movement.                                                        *)
(***************************************************************************)
CursorCounts == {1, 2, 999, INT_MAX}

CursorOps ==
    {<<10>>, <<13>>, <<8>>, <<9>>, <<120>>, Csi0(72), Csi0(65), Csi0(66), Csi0(67), Csi0(68)}
    \cup {Csi1(k, f) : k \in CursorCounts, f \in {65, 66, 67, 68, 71, 100}}
    \cup {Csi2(a, b, 72) : a \in {2, 999}, b \in {2, 999}}

InitCursor ==
    /\ TERM_COLS = MIN_TERM_COLS
    /\ TERM_ROWS = MIN_TERM_ROWS
    /\ pre \in {Boot, Feed(Boot, Letters)}
    /\ term = pre
    /\ inp \in Pairs(CursorOps, CursorOps)
    /\ done = <<>>
    /\ Detached

SpecCursor == InitCursor /\ [][Next]_vars

\* C1: after every processed byte 0 <= cursor_x <= cols and 0 <= cursor_y < rows.
C1_CursorInRange ==
    /\ 0 <= term.cursor_x /\ term.cursor_x <= TERM_COLS
    /\ 0 <= term.cursor_y /\ term.cursor_y < TERM_ROWS

(***************************************************************************)
(* Scroll region.                                                          *)
(***************************************************************************)
RegionParams == {0, 1, 2, 3, 4, 999}

RegionOps ==
    {Csi0(114)}
    \cup {Csi1(a, 114) : a \in RegionParams}
    \cup {Csi2(a, b, 114) : a \in RegionParams, b \in RegionParams}

InitRegion ==
    /\ TERM_COLS \in MIN_TERM_COLS..MAX_TERM_COLS
    /\ TERM_ROWS \in MIN_TERM_ROWS..MAX_TERM_ROWS
    /\ pre \in {Boot, Feed(Boot, Csi2(2, 3, 114))}
    /\ term = pre
    /\ inp \in RegionOps
    /\ done = <<>>
    /\ Detached

SpecRegion == InitRegion /\ [][Next]_vars

\* C2: after every processed byte 0 <= scroll_top <= scroll_bottom < rows.
C2_RegionOrdered ==
    /\ 0 <= term.scroll_top
    /\ term.scroll_top <= term.scroll_bottom
    /\ term.scroll_bottom < TERM_ROWS

(***************************************************************************)
(* UTF-8 input.                                                            *)
(***************************************************************************)
IsSurrogate(u) == u >= 55296 /\ u <= 57343
IsScalar(u) == u >= 0 /\ u <= 1114111 /\ ~IsSurrogate(u)

\* the canonical (shortest-form) UTF-8 encoding of the scalar value u
Utf8Encode(u) ==
    IF u < 128 THEN <<u>>
    ELSE IF u < 2048 THEN <<192 + (u \div 64), 128 + (u % 64)>>
    ELSE IF u < 65536 THEN
        <<224 + (u \div 4096), 128 + ((u \div 64) % 64), 128 + (u % 64)>>
    ELSE <<240 + (u \div 262144), 128 + ((u \div 4096) % 64),
           128 + ((u \div 64) % 64), 128 + (u % 64)>>

\* scalar values U+0020..U+10FFFF: the edges of every encoding length, and a sweep
Stride == 7919
SweepLen == 140
ScalarSamples ==
    {u \in {32, 65, 126, 127, 128, 255, 2047, 2048, 20013, 55295, 57344,
            65533, 65535, 65536, 1114111}
           \cup {32 + k * Stride : k \in 0..SweepLen} : IsScalar(u)}

\* ill-formed input: surrogates, overlong forms, values past U+10FFFF, stray
\* continuation and invalid lead bytes, truncated sequences
IllFormed ==
    {<<237, 160, 128>>, <<237, 191, 191>>, <<192, 128>>, <<193, 191>>,
     <<224, 128, 128>>, <<240, 128, 128, 128>>, <<244, 144, 128, 128>>,
     <<247, 191, 191, 191>>, <<128>>, <<191>>, <<248>>, <<255>>,
     <<228, 65, 66>>, <<228, 184, 65>>, <<194, 65>>, <<240, 159, 65, 66>>}

Utf8Pre ==
    {Boot,
     Feed(Boot, Letters),                   \* pending wrap on the last row
     Feed(Boot, Fill \o Goto(1, 1)),        \* written grid, cursor inside
     Feed(Boot, <<228>>),                   \* a sequence already begun
     Feed(Boot, <<ESC>>)}                   \* parser in Esc

InitUtf8 ==
    /\ TERM_COLS \in MIN_TERM_COLS..MAX_TERM_COLS
    /\ TERM_ROWS \in MIN_TERM_ROWS..MAX_TERM_ROWS
    /\ pre \in Utf8Pre
    /\ term = pre
    /\ inp \in {Utf8Encode(u) : u \in ScalarSamples} \cup IllFormed
    /\ done = <<>>
    /\ Detached

SpecUtf8 == InitUtf8 /\ [][Next]_vars

\* every visible cell but (y, x) is as it was when the input arrived
OnlyCellChanged(y, x) ==
    \A yy \in 0..(TERM_ROWS - 1), xx \in 0..(TERM_COLS - 1) :
        (yy # y \/ xx # x) => Cell(term, yy, xx) = Cell(pre, yy, xx)

\* C3: after every processed byte each visible cell holds ' ' or a Unicode
\* scalar value (0..0x10FFFF, not a surrogate).
C3_CellsHoldScalars ==
    \A y \in 0..(TERM_ROWS - 1), x \in 0..(TERM_COLS - 1) :
        Cell(term, y, x).codepoint = SPACE \/ IsScalar(Cell(term, y, x).codepoint)

\* the input that arrived in Normal state with an idle accumulator was exactly
\* the canonical encoding of the scalar u, and has been processed
Decoded(u) ==
    /\ pre.state = "STATE_NORMAL"
    /\ pre.utf8_buf_len = 0
    /\ done = Utf8Encode(u)

\* C4 as claimed: the canonical encoding of any scalar writes exactly one cell,
\* at the cursor, holding that scalar, and advances cursor_x by one.
C4_RoundTripAtCursor ==
    \A u \in ScalarSamples :
        Decoded(u) =>
            /\ InGrid(pre.cursor_y, pre.cursor_x)
            /\ Cell(term, pre.cursor_y, pre.cursor_x).codepoint = u
            /\ OnlyCellChanged(pre.cursor_y, pre.cursor_x)
            /\ term.cursor_x = pre.cursor_x + 1
            /\ term.cursor_y = pre.cursor_y

\* C4 amended: the same, when the cursor is on a cell of the grid (no pending
\* wrap); in pending wrap the scalar is written in column 0 of the row that
\* carriage return + newline reach, and cursor_x becomes 1.
C4_RoundTrip ==
    \A u \in ScalarSamples :
        Decoded(u) =>
            IF InGrid(pre.cursor_y, pre.cursor_x)
            THEN /\ Cell(term, pre.cursor_y, pre.cursor_x).codepoint = u
                 /\ OnlyCellChanged(pre.cursor_y, pre.cursor_x)
                 /\ term.cursor_x = pre.cursor_x + 1
                 /\ term.cursor_y = pre.cursor_y
            ELSE pre.cursor_x = TERM_COLS /\ InGrid(pre.cursor_y, 0) =>
                 /\ term.cursor_y = term_newline(pre).cursor_y
                 /\ Cell(term, term.cursor_y, 0).codepoint = u
                 /\ term.cursor_x = 1

\* a three-byte character has been decoded into the cell under the cursor
C4_Witness ==
    /\ Decoded(20013)
    /\ InGrid(pre.cursor_y, pre.cursor_x)
    /\ Cell(term, pre.cursor_y, pre.cursor_x).codepoint = 20013
    /\ Cell(pre, pre.cursor_y, pre.cursor_x).codepoint # 20013

(***************************************************************************)
(* Scrolling, insert and delete lines.                                     *)
(***************************************************************************)
\* one bold character in the middle of row 1 of an otherwise blank grid
BoldMiddle == Goto(1, 1) \o <<ESC, 91, 49, 109, 88, ESC, 91, 109>>

ScrollContents == {<<>>, Fill, BoldMiddle}
\* no region set, rows 1..2, rows 0..1, and top below bottom
ScrollRegions == {<<>>, Csi2(2, 3, 114), Csi2(1, 2, 114), Csi2(3, 2, 114)}

ScrollPre ==
    {Feed(Boot, c \o r \o Goto(y, 1)) :
        c \in ScrollContents, r \in ScrollRegions, y \in 0..(TERM_ROWS - 1)}

ScrollCounts == {0, 1, 2, 3, 5}
ScrollFinals == {83, 84, 76, 77}

ScrollOps ==
    {<<10>>}
    \cup {Csi0(f) : f \in ScrollFinals}
    \cup {Csi1(k, f) : k \in ScrollCounts, f \in ScrollFinals}
    \cup {Csi1(k, 83) \o Csi1(k, 84) : k \in 1..MAX_TERM_ROWS}

InitScroll ==
    /\ TERM_COLS \in MIN_TERM_COLS..MAX_TERM_COLS
    /\ TERM_ROWS \in MIN_TERM_ROWS..MAX_TERM_ROWS
    /\ pre \in ScrollPre
    /\ term = pre
    /\ inp \in ScrollOps
    /\ done = <<>>
    /\ Detached

SpecScroll == InitScroll /\ [][Next]_vars

RegionValid(t) ==
    0 <= t.scroll_top /\ t.scroll_top <= t.scroll_bottom /\ t.scroll_bottom < TERM_ROWS

Height(t) == t.scroll_bottom - t.scroll_top + 1

\* row y of t is blank in t's SGR state, bold included
RowBlank(t, y) ==
    \A x \in 0..(TERM_COLS - 1) :
        Cell(t, y, x) = [codepoint |-> SPACE, fg_color |-> t.fg_color,
                         bg_color |-> t.bg_color, bold |-> t.bold]

\* cell c is a blank in the colours of t (whatever its bold flag)
IsBlank(t, c) ==
    c.codepoint = SPACE /\ c.fg_color = t.fg_color /\ c.bg_color = t.bg_color

RowUnchanged(y) == Row(term, y) = Row(pre, y)

\* C5: for a valid region and 1 <= k <= height, CSI k S then CSI k T restores
\* every cell of the grid (codepoint, colours, bold) when the k rows at each
\* edge of the region were blank beforehand.
C5_ScrollCancels ==
    \A k \in 1..MAX_TERM_ROWS :
        (/\ RegionValid(pre)
         /\ k <= Height(pre)
         /\ done = Csi1(k, 83) \o Csi1(k, 84)
         /\ \A y \in 0..(TERM_ROWS - 1) :
                (/\ y >= pre.scroll_top /\ y <= pre.scroll_bottom
                 /\ (y < pre.scroll_top + k \/ y > pre.scroll_bottom - k))
                => RowBlank(pre, y))
        => \A y \in 0..(TERM_ROWS - 1) : RowUnchanged(y)

\* the region of pre has moved up by s rows (down when s < 0): rows outside
\* it are unchanged, rows inside hold the row s further on, freed rows are blank
Scrolled(s) ==
    LET top == pre.scroll_top
        bot == pre.scroll_bottom
    IN  \A y \in 0..(TERM_ROWS - 1) :
            IF y < top \/ y > bot THEN RowUnchanged(y)
            ELSE IF y + s >= top /\ y + s <= bot THEN Row(term, y) = Row(pre, y + s)
            ELSE \A x \in 0..(TERM_COLS - 1) : IsBlank(pre, Cell(term, y, x))

\* C6: a newline at the region bottom, CSI n S and CSI n T change no row outside
\* [scroll_top, scroll_bottom]; inside, rows shift one per step and the freed
\* edge rows are blank.
C6_ScrollInsideRegion ==
    /\ (done = <<10>> /\ pre.cursor_y = pre.scroll_bottom) => Scrolled(1)
    /\ \A n \in ScrollCounts :
        /\ done = Csi1(n, 83) => Scrolled(Max(n, 1))
        /\ done = Csi1(n, 84) => Scrolled(-Max(n, 1))

\* C7: CSI k L and CSI k M change only rows of [cursor_y, scroll_bottom] that
\* lie inside the region, wherever the cursor row is.
C7_LinesInsideRegion ==
    (\E k \in ScrollCounts, f \in {76, 77} : done = Csi1(k, f) \/ done = Csi0(f))
    => \A y \in 0..(TERM_ROWS - 1) :
           (y < pre.cursor_y \/ y < pre.scroll_top \/ y > pre.scroll_bottom)
           => RowUnchanged(y)

(***************************************************************************)
(* Erase display, erase line, delete characters.                           *)
(***************************************************************************)
\* a written grid with the cursor on each cell, and in pending wrap on each row
ErasePre ==
    {Feed(Boot, Fill \o Goto(y, x)) :
        y \in 0..(TERM_ROWS - 1), x \in 0..(TERM_COLS - 1)}
    \cup {Feed(Boot, Fill \o Goto(y, TERM_COLS - 1) \o <<90>>) :
        y \in 0..(TERM_ROWS - 1)}

EraseModes == {0, 1, 2, 3}
DeleteCounts == {0, 1, 2, 3, 4, 5, 6, 999}

EraseOps ==
    {Csi0(74), Csi0(75), Csi0(80)}
    \cup {Csi1(p, f) : p \in EraseModes, f \in {74, 75}}
    \cup {Csi1(k, 80) : k \in DeleteCounts}

InitErase ==
    /\ TERM_COLS \in MIN_TERM_COLS..MAX_TERM_COLS
    /\ TERM_ROWS \in MIN_TERM_ROWS..MAX_TERM_ROWS
    /\ pre \in ErasePre
    /\ term = pre
    /\ inp \in EraseOps
    /\ done = <<>>
    /\ Detached

SpecErase == InitErase /\ [][Next]_vars

CursorUnchanged == term.cursor_x = pre.cursor_x /\ term.cursor_y = pre.cursor_y

\* the effect claimed for CSI k P
CharsDeleted(k) ==
    /\ ~term.fault
    /\ CursorUnchanged
    /\ \A y \in 0..(TERM_ROWS - 1), x \in 0..(TERM_COLS - 1) :
        IF y # pre.cursor_y \/ x < pre.cursor_x THEN Cell(term, y, x) = Cell(pre, y, x)
        ELSE IF x < TERM_COLS - k THEN Cell(term, y, x) = Cell(pre, y, x + k)
        ELSE IsBlank(pre, Cell(term, y, x))

\* C8: CSI k P, for any k: in the cursor row columns left of the cursor are
\* unchanged, columns [cursor_x, cols-k) receive the cell k to the right, the
\* rest of the row is blank; no other row changes, the cursor does not move.
C8_DeleteChars ==
    /\ done = Csi0(80) => CharsDeleted(1)
    /\ \A k \in DeleteCounts : done = Csi1(k, 80) => CharsDeleted(Max(k, 1))

\* the cells CSI p J is said to blank
InEraseSet(p, y, x) ==
    CASE p = 0 -> y > pre.cursor_y \/ (y = pre.cursor_y /\ x >= pre.cursor_x)
      [] p = 1 -> y < pre.cursor_y \/ (y = pre.cursor_y /\ x <= pre.cursor_x)
      [] OTHER -> TRUE

\* exactly the cells of the erase set (of its part in the cursor row, for a
\* line erase) are blank, every other cell is as before
Erased(p, lineOnly) ==
    /\ ~term.fault
    /\ CursorUnchanged
    /\ \A y \in 0..(TERM_ROWS - 1), x \in 0..(TERM_COLS - 1) :
        IF InEraseSet(p, y, x) /\ (lineOnly => y = pre.cursor_y)
        THEN IsBlank(pre, Cell(term, y, x))
        ELSE Cell(term, y, x) = Cell(pre, y, x)

\* C9: CSI p J blanks exactly cursor..end (p=0), start..cursor (p=1), the whole
\* grid (p=2, 3); CSI p K the part of that set in the cursor row; in every
\* cursor state, pending wrap included, nothing else changes.
C9_EraseExact ==
    /\ done = Csi0(74) => Erased(0, FALSE)
    /\ done = Csi0(75) => Erased(0, TRUE)
    /\ \A p \in EraseModes :
        /\ done = Csi1(p, 74) => Erased(p, FALSE)
        /\ done = Csi1(p, 75) => Erased(p, TRUE)

(***************************************************************************)
(* Charset designation.                                                    *)
(***************************************************************************)
\* printable, control, escape, CSI/OSC introducers, UTF-8 lead and continuation
DesignatorBytes == {0, 7, 8, 9, 10, 13, ESC, 40, 48, 66, 91, 93, 127, 128, 228, 255}

InitEsc ==
    /\ TERM_COLS \in MIN_TERM_COLS..MAX_TERM_COLS
    /\ TERM_ROWS \in MIN_TERM_ROWS..MAX_TERM_ROWS
    /\ pre \in {Boot, Feed(Boot, Fill \o Goto(1, 1)), Feed(Boot, Fill)}
    /\ term = pre
    /\ inp \in {<<ESC, 40, b>> \o tl : b \in DesignatorBytes, tl \in {<<>>, <<65>>}}
    /\ done = <<>>
    /\ Detached

SpecEsc == InitEsc /\ [][Next]_vars

\* C10: after ESC '(' the next byte, whatever it is, writes no cell, moves no
\* cursor and starts no sequence, and leaves the parser in Normal state.
C10_DesignatorDiscarded ==
    \A b \in DesignatorBytes :
        done = <<ESC, 40, b>> =>
            /\ \A y \in 0..(TERM_ROWS - 1) : RowUnchanged(y)
            /\ CursorUnchanged
            /\ term.state = "STATE_NORMAL"
            /\ term.utf8_buf_len = 0

(***************************************************************************)
(* CSI parameter collection.                                               *)
(***************************************************************************)
RECURSIVE JoinParams(_)
\* the parameters ps in decimal, separated by ';'
JoinParams(ps) ==
    IF ps = <<>> THEN <<>>
    ELSE IF Len(ps) = 1 THEN decimal(ps[1])
    ELSE decimal(ps[1]) \o <<59>> \o JoinParams(Tail(ps))

\* ESC [ p1 ; p2 ; ... final
CsiN(ps, final) == <<ESC, 91>> \o JoinParams(ps) \o <<final>>

\* how many parameters past the 16 slots the sequences carry
ExtraParams == 2

\* the parameters 1, 2, ..., n
Counting(n) == [i \in 1..n |-> i]

\* 15 zeros, then 3, then the parameters of tl: an SGR whose 16th parameter is 3
SixteenthIsThree(tl) == [i \in 1..(MAX_ESCAPE_PARAMS - 1) |-> 0] \o <<3>> \o tl

ParamLists ==
    {Counting(n) : n \in (MAX_ESCAPE_PARAMS - 1)..(MAX_ESCAPE_PARAMS + ExtraParams)}
    \cup {SixteenthIsThree(<<>>), SixteenthIsThree(<<1>>)}

\* sixteen parameters followed by semicolons only
SemicolonsOnly == {<<ESC, 91>> \o JoinParams(Counting(MAX_ESCAPE_PARAMS)) \o <<59, 59, f>> :
                      f \in {109, 122}}

InitParams ==
    /\ TERM_COLS \in MIN_TERM_COLS..MAX_TERM_COLS
    /\ TERM_ROWS \in MIN_TERM_ROWS..MAX_TERM_ROWS
    /\ pre \in {Boot}
    /\ term = pre
    /\ inp \in {CsiN(ps, f) : ps \in ParamLists, f \in {109, 122}} \cup SemicolonsOnly
    /\ done = <<>>
    /\ Detached

SpecParams == InitParams /\ [][Next]_vars

\* the slots hold the first parameters of ps, at most 16 of them
SlotsHold(ps) ==
    /\ ~term.fault
    /\ term.num_escape_params = Min(Len(ps), MAX_ESCAPE_PARAMS)
    /\ \A i \in 1..Min(Len(ps), MAX_ESCAPE_PARAMS) : term.escape_params[i - 1] = ps[i]

\* C11: a CSI with more than 16 parameters keeps num_escape_params at 16 and,
\* at dispatch, the 16 slots hold the first 16 parameters of the sequence:
\* digits and semicolons after the 16th parameter change none of them.
C11_OverflowAbsorbed ==
    /\ term.num_escape_params <= MAX_ESCAPE_PARAMS
    /\ \A ps \in ParamLists, f \in {109, 122} : done = CsiN(ps, f) => SlotsHold(ps)
    /\ done \in SemicolonsOnly => SlotsHold(Counting(MAX_ESCAPE_PARAMS))

(***************************************************************************)
(* The parser as a whole.                                                  *)
(***************************************************************************)
\* complete, unterminated and malformed sequences of every kind, and plain bytes
ParserFrags ==
    {Csi0(109), Csi1(5, 110), Csi2(1, 2, 72),
     <<ESC, 91, 63, 50, 53, 108>>,          \* ESC [ ? 25 l
     <<ESC, 91, 63, 50, 53, 104>>,          \* ESC [ ? 25 h
     <<ESC, 91, 63, 53, 122>>,              \* ESC [ ? 5 z
     <<ESC, 91, 49, 32, 113>>,              \* an intermediate byte
     <<ESC, 91, 49, 10>>,                   \* a control byte inside a CSI
     <<ESC, 91, 59, 59, 53, 126>>,          \* empty parameters
     <<ESC, 91, 63>>, <<ESC, 91>>, <<ESC>>, \* cut short
     CsiN(Counting(MAX_ESCAPE_PARAMS + 1), 109),
     <<ESC, 93, 48, 59, 116, BEL>>,         \* OSC ended by BEL
     <<ESC, 93, 116, ESC, 92>>,             \* OSC ended by ESC \
     <<ESC, 40, 66>>, <<ESC, 77>>, <<65>>, <<10>>}

InitParser ==
    /\ TERM_COLS \in MIN_TERM_COLS..MAX_TERM_COLS
    /\ TERM_ROWS \in MIN_TERM_ROWS..MAX_TERM_ROWS
    /\ pre \in {Boot}
    /\ term = pre
    /\ inp \in Pairs(ParserFrags, ParserFrags)
    /\ done = <<>>
    /\ Detached

SpecParser == InitParser /\ [][Next]_vars

ParserStateOK ==
    /\ term.state \in {"STATE_NORMAL", "STATE_ESC", "STATE_CSI", "STATE_OSC"}
    /\ term.num_escape_params >= 0
    /\ term.num_escape_params <= MAX_ESCAPE_PARAMS

\* the step that processes a CSI final byte, and the step from Esc into Csi
ParserStepOK ==
    inp # <<>> =>
        /\ (term.state = "STATE_CSI" /\ Head(inp) >= 64 /\ Head(inp) <= 126)
            => (term'.state = "STATE_NORMAL" /\ term'.private_mode = 0)
        /\ (term.state = "STATE_ESC" /\ Head(inp) = 91)
            => /\ term'.state = "STATE_CSI"
               /\ term'.num_escape_params = 0
               /\ term'.private_mode = 0
               /\ \A i \in 0..(MAX_ESCAPE_PARAMS - 1) : term'.escape_params[i] = 0

\* C12: the parser state is always one of the four and 0 <= num_escape_params
\* <= 16; every CSI final byte ('@'..'~') leaves the state Normal and
\* private_mode false; entering Csi from Esc zeroes the parameters, the count
\* and private_mode.
C12_ParserInvariants == []ParserStateOK /\ [][ParserStepOK]_vars

\* a private-mode CSI has been dispatched after an earlier CSI had left parameters
C12_Witness ==
    /\ done = Csi1(5, 110) \o <<ESC, 91, 63, 50, 53, 108>>
    /\ term.state = "STATE_NORMAL"
    /\ term.private_mode = 0
    /\ term.cursor_visible = 0
    /\ term.escape_params[0] = 25

(***************************************************************************)
(* Replies written to the PTY master.                                      *)
(***************************************************************************)
\* the three requests, requests that are not answered, and other input
ReportFrags ==
    {Csi1(6, 110), Csi1(5, 110), Csi0(99),
     Csi0(110), Csi1(7, 110), Csi1(0, 99), Csi2(6, 5, 110),
     <<ESC, 91, 63, 54, 110>>,              \* ESC [ ? 6 n
     <<110>>, <<99>>, Goto(1, 1), Csi0(109), <<ESC, 93, 54, 110, BEL>>}

InitReport ==
    /\ TERM_COLS \in MIN_TERM_COLS..MAX_TERM_COLS
    /\ TERM_ROWS \in MIN_TERM_ROWS..MAX_TERM_ROWS
    /\ pre \in {Boot, Feed(Boot, Letters)}
    /\ term = pre
    /\ inp \in {Csi2(y, x, 72) \o Csi1(6, 110) : y \in 1..TERM_ROWS, x \in 1..TERM_COLS}
               \cup Pairs(ReportFrags, ReportFrags)
    /\ done = <<>>
    /\ Detached

SpecReport == InitReport /\ [][Next]_vars

\* C13: for every y in 1..rows and x in 1..cols, after ESC[y;xH the bytes
\* written to the PTY master in response to ESC[6n are exactly ESC[y;xR.
C13_ReportRoundTrip ==
    \A y \in 1..TERM_ROWS, x \in 1..TERM_COLS :
        done = Csi2(y, x, 72) \o Csi1(6, 110)
        => term.written = pre.written \o Csi2(y, x, 82)

\* the cursor was moved to row 1, column 2 and reported there
C13_Witness ==
    /\ done = Csi2(1, 2, 72) \o Csi1(6, 110)
    /\ pre.cursor_x # 1
    /\ term.cursor_x = 1 /\ term.cursor_y = 0
    /\ term.written = <<ESC, 91, 49, 59, 50, 82>>

\* the reply owed to the final byte ch of a CSI dispatched in state t
ReplyOwed(t, ch) ==
    LET first == IF t.num_escape_params > 0 THEN t.escape_params[0] ELSE -1
    IN  IF ch = 99 THEN <<ESC, 91, 63, 49, 59, 50, 99>>
        ELSE IF ch = 110 /\ first = 6
        THEN Csi2(t.cursor_y + 1, t.cursor_x + 1, 82)
        ELSE IF ch = 110 /\ first = 5 THEN <<ESC, 91, 48, 110>>
        ELSE <<>>

\* a step appends the reply owed when it dispatches a request, nothing otherwise
ReplyStepOK ==
    inp # <<>> =>
        term'.written =
            IF term.state = "STATE_CSI" /\ term.master_fd >= 0
            THEN term.written \o ReplyOwed(term, Head(inp))
            ELSE term.written

\* the terminal as main drives it and as term_init leaves it (master_fd = -1),
\* each fresh and written to pending wrap
ReplyPre == {Boot, Feed(Boot, Letters), term_init, Feed(term_init, Letters)}

InitReply ==
    /\ TERM_COLS \in MIN_TERM_COLS..MAX_TERM_COLS
    /\ TERM_ROWS \in MIN_TERM_ROWS..MAX_TERM_ROWS
    /\ pre \in ReplyPre
    /\ term = pre
    /\ inp \in Pairs(ReportFrags, ReportFrags)
    /\ done = <<>>
    /\ Detached

SpecReply == InitReply /\ [][Next]_vars

\* with a master, the answers to two requests follow each other in the order
\* of the requests
RepliesInOrder ==
    LET report == Csi2(pre.cursor_y + 1, pre.cursor_x + 1, 82)
        status == <<ESC, 91, 48, 110>>
        attrs == <<ESC, 91, 63, 49, 59, 50, 99>>
        answer(r) == IF r = Csi1(6, 110) THEN report
                     ELSE IF r = Csi1(5, 110) THEN status ELSE attrs
    IN  \A a \in {Csi1(6, 110), Csi1(5, 110), Csi0(99)},
           b \in {Csi1(6, 110), Csi1(5, 110), Csi0(99)} :
            (done = a \o b /\ pre.master_fd >= 0)
                => term.written = pre.written \o answer(a) \o answer(b)

\* with no master nothing is ever written, whatever has been processed
NoMasterSilent ==
    pre.master_fd < 0 => (term.master_fd < 0 /\ term.written = <<>>)

\* C14: the terminal writes to the PTY master only the replies ESC[row;colR to
\* CSI 6 n, ESC[0n to CSI 5 n and ESC[?1;2c to CSI c, one per request and in
\* the order of the requests; with no master (master_fd < 0) nothing is
\* written; no other processed byte causes a write.
C14_OnlyReplies == []RepliesInOrder /\ []NoMasterSilent /\ [][ReplyStepOK]_vars

\* a status request and then a cursor report have been answered, in that order
C14_Witness ==
    /\ done = Csi1(5, 110) \o Csi1(6, 110)
    /\ pre.written = <<>>
    /\ term.written = <<ESC, 91, 48, 110>> \o Csi2(pre.cursor_y + 1, pre.cursor_x + 1, 82)

\* without a master a cursor report and the device attributes have been
\* requested and nothing has been written
NoMasterAsked ==
    /\ pre.master_fd < 0
    /\ done = Csi1(6, 110) \o Csi0(99)
    /\ term.state = "STATE_NORMAL"
    /\ term.written = <<>>

(***************************************************************************)
(* Pending wrap.                                                           *)
(***************************************************************************)
\* written and blank grids, every region shape, the cursor in the last column
\* of each row
WrapPre ==
    {Feed(Boot, c \o r \o Goto(y, TERM_COLS - 1)) :
        c \in {<<>>, Fill}, r \in ScrollRegions, y \in 0..(TERM_ROWS - 1)}
    \cup {Feed(Boot, Fill \o Goto(1, 1))}

WrapFirst == {65, 126}
\* the next printable character: ASCII, DEL, two and three bytes long
WrapNext == {66, 127, 233, 20013}

InitWrap ==
    /\ TERM_COLS \in MIN_TERM_COLS..MAX_TERM_COLS
    /\ TERM_ROWS \in MIN_TERM_ROWS..MAX_TERM_ROWS
    /\ pre \in WrapPre
    /\ term = pre
    /\ inp \in {<<a>> \o Utf8Encode(b) : a \in WrapFirst, b \in WrapNext}
    /\ done = <<>>
    /\ Detached

SpecWrap == InitWrap /\ [][Next]_vars

\* the cell a character u gets when written in the SGR state of pre
Stamped(u) ==
    [codepoint |-> u, fg_color |-> pre.fg_color, bg_color |-> pre.bg_color,
     bold |-> pre.bold]

\* pre after character a has been stored in the last column of the cursor row
LastColumnWritten(a) ==
    [pre EXCEPT !.cells[Flat(pre.cursor_y, TERM_COLS - 1)] = Stamped(a),
                !.cursor_x = TERM_COLS]

AfterFirst(a) ==
    /\ term.cursor_x = TERM_COLS
    /\ term.cursor_y = pre.cursor_y
    /\ \A y \in 0..(TERM_ROWS - 1), x \in 0..(TERM_COLS - 1) :
        Cell(term, y, x) = Cell(LastColumnWritten(a), y, x)

AfterNext(a, b) ==
    LET mid == LastColumnWritten(a)
        nl == term_newline(term_carriage_return(mid))
        top == pre.scroll_top
        bot == pre.scroll_bottom
    IN  /\ term.cursor_x = 1
        /\ term.cursor_y = nl.cursor_y
        /\ \A y \in 0..(TERM_ROWS - 1), x \in 0..(TERM_COLS - 1) :
            Cell(term, y, x) = IF y = term.cursor_y /\ x = 0 THEN Stamped(b)
                               ELSE Cell(nl, y, x)
        \* above the region bottom: one row down, nothing else changes
        /\ (RegionValid(pre) /\ pre.cursor_y < bot) =>
            /\ term.cursor_y = pre.cursor_y + 1
            /\ \A y \in 0..(TERM_ROWS - 1), x \in 0..(TERM_COLS - 1) :
                Cell(term, y, x) = IF y = pre.cursor_y + 1 /\ x = 0 THEN Stamped(b)
                                   ELSE Cell(mid, y, x)
        \* on the region bottom: the region scrolls up by one row
        /\ (RegionValid(pre) /\ pre.cursor_y = bot) =>
            /\ term.cursor_y = bot
            /\ \A y \in 0..(TERM_ROWS - 1), x \in 0..(TERM_COLS - 1) :
                IF y < top \/ y > bot THEN Cell(term, y, x) = Cell(mid, y, x)
                ELSE IF y < bot THEN Cell(term, y, x) = Cell(mid, y + 1, x)
                ELSE IF x = 0 THEN Cell(term, y, x) = Stamped(b)
                ELSE IsBlank(pre, Cell(term, y, x))

\* C15: a character written at cursor_x == cols-1 is stored in column cols-1 of
\* the cursor row and leaves cursor_x == cols; the next printable character
\* first performs carriage return + newline (scrolling the region when the
\* cursor was on scroll_bottom), is stored in column 0 of the new cursor row
\* and leaves cursor_x == 1.
C15_PendingWrap ==
    \A a \in WrapFirst, b \in WrapNext :
        (pre.cursor_x = TERM_COLS - 1 /\ InGrid(pre.cursor_y, pre.cursor_x)) =>
            /\ done = <<a>> => AfterFirst(a)
            /\ done = <<a>> \o Utf8Encode(b) => AfterNext(a, b)

\* the wrap happened on the bottom row of a region of several rows, which scrolled
C15_Witness ==
    /\ done = <<65, 66>>
    /\ pre.cursor_x = TERM_COLS - 1
    /\ RegionValid(pre) /\ pre.scroll_top < pre.scroll_bottom
    /\ pre.cursor_y = pre.scroll_bottom
    /\ term.cursor_x = 1
    /\ Cell(term, pre.scroll_bottom, 0).codepoint = 66
    /\ Cell(term, pre.scroll_bottom - 1, TERM_COLS - 1).codepoint = 65
    /\ Cell(pre, pre.scroll_top, 0).codepoint # SPACE

(***************************************************************************)
(* Clamping of the cursor-moving operations.                               *)
(***************************************************************************)
\* parameters as the digit strings the parser accumulates: absent, 0, 2, 999,
\* 2147483647, and 2147483648, 4294967295, 4294967297, 4294967299, which wrap
\* to INT_MIN, -1, 1 and 3
ClampDigits ==
    {<<>>, decimal(0), decimal(2), decimal(999), decimal(INT_MAX),
     decimal(214748364) \o <<56>>, decimal(429496729) \o <<53>>,
     decimal(429496729) \o <<55>>, decimal(429496729) \o <<57>>}

\* A B C D G d
ClampFinals1 == {65, 66, 67, 68, 71, 100}
\* H f
ClampFinals2 == {72, 102}

ClampOps ==
    {<<ESC, 91>> \o d \o <<f>> : d \in ClampDigits, f \in ClampFinals1 \cup ClampFinals2}
    \cup {<<ESC, 91>> \o d \o <<59>> \o e \o <<f>> :
            d \in {decimal(2), decimal(999), decimal(INT_MAX)},
            e \in ClampDigits, f \in ClampFinals2}

InitClamp ==
    /\ TERM_COLS = MIN_TERM_COLS
    /\ TERM_ROWS \in MIN_TERM_ROWS..MAX_TERM_ROWS
    /\ pre \in {Boot, Feed(Boot, <<97, 10>>), Feed(Boot, Goto(TERM_ROWS - 1, TERM_COLS - 1))}
    /\ term = pre
    /\ inp \in ClampOps
    /\ done = <<>>
    /\ Detached

SpecClamp == InitClamp /\ [][Next]_vars

\* C16: CSI H/f, A, B, C, D, G and d leave the coordinate they move inside the
\* grid, rows in [0, rows-1] and columns in [0, cols-1], for every parameter
\* the parser can produce, values far larger than the grid and values wrapped
\* by the 32-bit accumulation included.
C16_CursorClamped ==
    (done \in ClampOps) =>
        LET f == done[Len(done)]
        IN  /\ f \in {72, 102, 65, 66, 100} =>
                (0 <= term.cursor_y /\ term.cursor_y <= TERM_ROWS - 1)
            /\ f \in {72, 102, 67, 68, 71} =>
                (0 <= term.cursor_x /\ term.cursor_x <= TERM_COLS - 1)

(***************************************************************************)
(* Select Graphic Rendition.                                               *)
(***************************************************************************)
\* handled parameters from every range, and parameters outside all of them
SgrParams ==
    {0, 1, 22, 30, 31, 37, 39, 40, 44, 47, 49, 90, 97, 100, 107,
     2, 5, 7, 29, 38, 48, 98, 108, 999}

SgrPairParams == {0, 1, 22, 31, 39, 44, 49, 97, 100, 5}

SgrLists ==
    {<<p>> : p \in SgrParams}
    \cup {<<p, q>> : p \in SgrPairParams, q \in SgrPairParams}
    \cup {<<1, 31, 44>>, <<97, 107, 1, 0>>, <<31, 44, 1, 39, 49, 22>>,
          SixteenthIsThree(<<>>), SixteenthIsThree(<<1>>)}

\* SGR states to start from: initial, bold, coloured, bright
SgrSetups == {<<>>, Csi1(1, 109), CsiN(<<1, 31, 44>>, 109), CsiN(<<97, 107>>, 109)}

SgrPre == {Feed(Boot, Fill \o s \o Goto(1, 1)) : s \in SgrSetups}

InitSgr ==
    /\ TERM_COLS \in MIN_TERM_COLS..MAX_TERM_COLS
    /\ TERM_ROWS = MIN_TERM_ROWS
    /\ pre \in SgrPre
    /\ term = pre
    /\ inp \in {CsiN(ps, 109) \o <<88>> : ps \in SgrLists}
            \cup {Csi0(109) \o Csi0(109) \o <<88>>}
    /\ done = <<>>
    /\ Detached

SpecSgr == InitSgr /\ [][Next]_vars

Sgr(t) == [fg |-> t.fg_color, bg |-> t.bg_color, bold |-> t.bold]

\* the effect of one parameter on the SGR state
SgrTable(g, p) ==
    CASE p = 0 -> [fg |-> WHITE, bg |-> BLACK, bold |-> 0]
      [] p = 1 -> [g EXCEPT !.bold = 1]
      [] p = 22 -> [g EXCEPT !.bold = 0]
      [] p \in 30..37 -> [g EXCEPT !.fg = color_palette(p - 30)]
      [] p = 39 -> [g EXCEPT !.fg = WHITE]
      [] p \in 40..47 -> [g EXCEPT !.bg = color_palette(p - 40)]
      [] p = 49 -> [g EXCEPT !.bg = BLACK]
      [] p \in 90..97 -> [g EXCEPT !.fg = color_palette(p - 90 + 8)]
      [] p \in 100..107 -> [g EXCEPT !.bg = color_palette(p - 100 + 8)]
      [] OTHER -> g

RECURSIVE SgrApply(_, _)
\* the parameters of ps applied left to right
SgrApply(g, ps) ==
    IF ps = <<>> THEN g ELSE SgrApply(SgrTable(g, Head(ps)), Tail(ps))

GridUnchanged ==
    \A y \in 0..(TERM_ROWS - 1), x \in 0..(TERM_COLS - 1) : Cell(term, y, x) = Cell(pre, y, x)

SgrApplied(ps) ==
    LET g == SgrApply(Sgr(pre), ps)
    IN  /\ done = CsiN(ps, 109) =>
            /\ Sgr(term) = g
            /\ GridUnchanged
            /\ CursorUnchanged
        /\ done = CsiN(ps, 109) \o <<88>> =>
            /\ Cell(term, pre.cursor_y, pre.cursor_x) =
                  [codepoint |-> 88, fg_color |-> g.fg, bg_color |-> g.bg, bold |-> g.bold]
            /\ Sgr(term) = g

\* C17: CSI ... m applies its parameters left to right by the table (0 reset,
\* 1 bold, 22 not bold, 30..37 and 90..97 foreground, 39 white, 40..47 and
\* 100..107 background, 49 black, any other no change), changes no cell and no
\* cursor, and a character written afterwards carries the resulting fg, bg, bold.
C17_SgrTable == \A ps \in SgrLists : SgrApplied(ps)

\* the same for the parameter lists that fit the 16 slots
SgrTableWithinSlots ==
    \A ps \in SgrLists : Len(ps) <= MAX_ESCAPE_PARAMS => SgrApplied(ps)

\* C18: after a bare ESC [ m, from any SGR state, fg, bg and bold are white,
\* black and off; a second ESC [ m changes nothing.
C18_ResetIdempotent ==
    /\ done = Csi0(109) =>
        Sgr(term) = [fg |-> WHITE, bg |-> BLACK, bold |-> 0]
    /\ done = Csi0(109) \o Csi0(109) =>
        term = Feed(pre, Csi0(109))

\* the reset acted twice on a bold, coloured state
C18_Witness ==
    /\ done = Csi0(109) \o Csi0(109)
    /\ pre.bold = 1 /\ pre.fg_color = color_palette(1) /\ pre.bg_color = color_palette(4)
    /\ term.bold = 0 /\ term.fg_color = WHITE /\ term.bg_color = BLACK

(***************************************************************************)
(* Sequences that are absorbed: unhandled CSI finals, OSC payloads.        *)
(***************************************************************************)
\* the finals term_handle_csi has a case for
HandledFinals ==
    {72, 102, 65, 66, 67, 68, 74, 75, 109, 104, 108, 114, 100, 71, 83, 84, 76,
     77, 88, 80, 64, 110, 99}

\* the bytes '@'..'~' that end a CSI sequence and have no case
UnhandledFinals == (64..126) \ HandledFinals

\* parameter bytes: none, 5, 1;2, ?25, 999, 6 with an intermediate, 2147483647
AbsorbBodies ==
    {<<>>, <<53>>, <<49, 59, 50>>, <<63, 50, 53>>, decimal(999), <<54, 32>>,
     decimal(INT_MAX)}

AbsorbOps == {<<ESC, 91>> \o b \o <<f>> : b \in AbsorbBodies, f \in UnhandledFinals}

\* a written grid, cursor hidden, a partial region, bold red on blue, and the
\* cursor on row 1; and a full grid with the wrap pending
AbsorbPre ==
    {Feed(Boot, Fill \o <<ESC, 91, 63, 50, 53, 108>> \o Csi2(2, 3, 114)
                \o CsiN(<<1, 31, 44>>, 109) \o Goto(1, 1)),
     Feed(Boot, Letters)}

InitAbsorb ==
    /\ TERM_COLS = MIN_TERM_COLS
    /\ TERM_ROWS \in MIN_TERM_ROWS..MAX_TERM_ROWS
    /\ pre \in AbsorbPre
    /\ term = pre
    /\ inp \in AbsorbOps
    /\ done = <<>>
    /\ Detached

SpecAbsorb == InitAbsorb /\ [][Next]_vars

\* cells, cursor, SGR state and scroll region
Frame(t) ==
    [cells |-> t.cells, cursor_x |-> t.cursor_x, cursor_y |-> t.cursor_y,
     fg_color |-> t.fg_color, bg_color |-> t.bg_color, bold |-> t.bold,
     scroll_top |-> t.scroll_top, scroll_bottom |-> t.scroll_bottom]

\* C19: a CSI sequence with an unhandled final byte changes no cell, not the
\* cursor, the SGR state, the scroll region or cursor_visible, writes nothing
\* to the PTY master, and leaves the parser in Normal.
C19_UnhandledAbsorbed ==
    /\ Frame(term) = Frame(pre)
    /\ term.cursor_visible = pre.cursor_visible
    /\ term.written = pre.written
    /\ done \in AbsorbOps => term.state = "STATE_NORMAL"

\* CSI ? 25 ~ went through a state with the cursor hidden and a partial region
C19_Witness ==
    /\ done = <<ESC, 91, 63, 50, 53, 126>>
    /\ term.state = "STATE_NORMAL"
    /\ term.escape_params[0] = 25
    /\ pre.cursor_visible = 0 /\ term.cursor_visible = 0
    /\ pre.scroll_top = 1 /\ pre.bold = 1
    /\ pre.cursor_y = 1

\* longest payload enumerated byte by byte
OscLen == 3

\* payload bytes: NUL, LF, ';', '[', 'm', 'A', a UTF-8 lead byte, 0xFF
OscBytes == {0, 10, 59, 91, 109, 65, 195, 255}

RECURSIVE OscPayloads(_)
OscPayloads(n) ==
    IF n = 0 THEN {<<>>}
    ELSE OscPayloads(n - 1) \cup {Append(q, b) : q \in OscPayloads(n - 1), b \in OscBytes}

\* "0;title", and a payload that spells control sequences without their ESC
OscLong ==
    {<<48, 59, 116, 105, 116, 108, 101>>,
     <<91, 50, 74, 91, 49, 59, 49, 72, 91, 51, 49, 109, 10, 13, 8, 9, 93, 91, 50,
       59, 51, 114, 88, 89, 90, 91, 54, 110, 91, 99>>}

OscOps ==
    {<<ESC, 93>> \o q \o <<e, 90>> : q \in OscPayloads(OscLen) \cup OscLong, e \in {BEL, ESC}}

InitOsc ==
    /\ TERM_COLS = MIN_TERM_COLS
    /\ TERM_ROWS = MIN_TERM_ROWS
    /\ pre \in AbsorbPre
    /\ term = pre
    /\ inp \in OscOps
    /\ done = <<>>
    /\ Detached

SpecOsc == InitOsc /\ [][Next]_vars

OscStepOK ==
    (inp # <<>> /\ term.state = "STATE_OSC") =>
        IF Head(inp) = BEL \/ Head(inp) = ESC
        THEN term'.state = "STATE_NORMAL"
        ELSE term'.state = "STATE_OSC" /\ Frame(term') = Frame(term)

\* while the payload is read nothing of the frame differs from the state before
OscFrameKept ==
    term.state = "STATE_OSC" => Frame(term) = Frame(pre)

\* C20: in Osc every byte other than BEL and ESC is absorbed: the state stays
\* Osc and cells, cursor, SGR state and scroll region are unchanged, whatever
\* the payload length; the first BEL or ESC returns the parser to Normal.
C20_OscAbsorbed == []OscFrameKept /\ [][OscStepOK]_vars

\* the long payload ended by ESC: parser in Normal, frame as before
C20_Witness ==
    /\ Len(done) = 33
    /\ done[2] = 93 /\ done[30] = 110 /\ done[33] = ESC
    /\ term.state = "STATE_NORMAL"
    /\ Frame(term) = Frame(pre)
    /\ pre.cursor_visible = 0 /\ pre.scroll_top = 1

(***************************************************************************)
(* The event loop.                                                         *)
(***************************************************************************)
\* what the user types: nothing, Ctrl+Q alone, after one byte, amid four bytes
LoopInputs == {<<>>, <<CTRL_Q>>, <<120, CTRL_Q>>, <<120, 121, CTRL_Q, 122>>}

\* what the shell writes: nothing, text longer than buf, a two-byte character,
\* an erase and a cursor position report request
LoopStreams == {<<>>, <<97, 98, 99>>, <<195, 169>>, <<97, ESC, 91, 74>>, <<ESC, 91, 54, 110>>}

InitLoop ==
    /\ TERM_COLS = MIN_TERM_COLS
    /\ TERM_ROWS = MIN_TERM_ROWS
    /\ pre = Boot
    /\ term = pre
    /\ inp = <<>>
    /\ done = <<>>
    /\ kb = kb_init
    /\ kbio = NoKey
    /\ host \in {host_looping(i, o) : i \in LoopInputs, o \in LoopStreams}
    /\ fb = NoFramebuffer

SpecLoop == InitLoop /\ [][NextLoop]_vars

\* main's own steps are taken while one is possible, and a pending signal is delivered
MainSteps ==
    LoopTop \/ Select \/ StdinInput \/ PtyRead \/ DrainFeed \/ DrainNext \/ Render \/ Shutdown

SpecLoopFair == SpecLoop /\ WF_vars(MainSteps) /\ WF_vars(SigchldHandler)

\* running is cleared by the handler, by a read of 0 from the master, or by a
\* read from stdin that holds Ctrl+Q
ClearedByCause ==
    (host.running # 0 /\ host'.running = 0) =>
        \/ host.sigchld /\ ~host'.sigchld
        \/ host.pc = "drain" /\ host'.n = 0
        \/ host.pc = "stdin" /\ HasCtrlQ(SubSeq(host'.typed, Len(host.typed) + 1, Len(host'.typed)))

\* once cleared, running stays cleared and the next test of it leaves the loop
ExitAtNextTop ==
    host.running = 0 =>
        /\ host'.running = 0
        /\ (host.pc = "loop_top" /\ host'.pc # "loop_top") => host'.pc = "shutdown"

\* the loop is left only with running cleared
LeftWhenCleared == host.pc \in {"shutdown", "exit"} => host.running = 0

ShutdownRan ==
    /\ host.pc = "exit" /\ host.exit_code = 0
    /\ ~host.master /\ ~host.fb_mem /\ ~host.raw

\* C21: once SIGCHLD, a read of 0 from the master or a Ctrl+Q byte has cleared
\* running, the loop is left at the next test of running and the shutdown
\* sequence runs; the loop is left for no other reason.
C21_LoopTerminates ==
    /\ (host.running = 0) ~> ShutdownRan
    /\ [][ExitAtNextTop /\ ClearedByCause]_vars
    /\ []LeftWhenCleared

\* Ctrl+Q ended the loop while the shell was alive
C21_Witness ==
    /\ ShutdownRan
    /\ HasCtrlQ(host.typed)
    /\ host.child = "alive"
    /\ done = <<97, 98, 99>>

\* a step that renders
Renders == host'.frames # host.frames

RenderStepOK ==
    Renders =>
        /\ host.needs_render # 0 /\ host'.needs_render = 0
        /\ inp = <<>>
        /\ done = host.read
        /\ term = Feed(Boot, host.read)
        /\ term' = term

\* bytes wait in buf only while main is in the loop that feeds them
BufOnlyWhileFeeding == inp # <<>> => host.pc = "process"

\* C22: a render happens only with the dirty flag set, clears it, and shows
\* the terminal after every byte read so far from the master has been fed to
\* the parser; none happens between a read and the end of its processing.
C22_RenderAfterFeed == []BufOnlyWhileFeeding /\ [][RenderStepOK]_vars

\* rendered once the three bytes of the shell, more than one buffer, were fed
C22_Witness ==
    /\ host.pc = "loop_top"
    /\ host.shown = 3
    /\ host.read = <<97, 98, 99>>
    /\ host.needs_render = 0
    /\ Cell(term, 0, 2).codepoint = 99

\* what the shell wrote, in order: read, waiting at the master, still to write
Arrived == host.read \o host.pty_q \o host.shell_src

\* C23: the bytes of the master are processed in arrival order and the parser
\* and decoder keep their state across reads: however the stream is split
\* into reads, once a read is processed the terminal (grid, cursor, SGR,
\* scroll region, parser state, replies) is what one pass over the bytes
\* gives.
C23_ChunkingInvisible ==
    /\ Arrived \in LoopStreams
    /\ done \o inp = host.read
    /\ inp = <<>> => term = Feed(Boot, host.read)

\* a report request split after ESC [ by a render, answered all the same
C23_Witness ==
    /\ host.read = <<ESC, 91, 54, 110>>
    /\ inp = <<>>
    /\ host.shown = 2
    /\ term.written = Csi2(1, 1, 82)
    /\ term.state = "STATE_NORMAL"

RECURSIVE BeforeQuit(_)
\* the bytes of s that come before its first Ctrl+Q
BeforeQuit(s) ==
    IF s = <<>> \/ Head(s) = CTRL_Q THEN <<>>
    ELSE <<Head(s)>> \o BeforeQuit(Tail(s))

\* C24: every byte read from stdin before the first Ctrl+Q is written to the
\* master once and in order, bytes read together with the Ctrl+Q included;
\* the Ctrl+Q and what follows it are never written.  (While the shell lives.)
C24_InputForwarded ==
    host.child = "alive" => host.to_master = BeforeQuit(host.typed)

\* the same, for reads that hold no Ctrl+Q after other bytes
ForwardedUnlessSameRead ==
    host.child = "alive" =>
        \/ host.to_master = BeforeQuit(host.typed)
        \/ /\ host.running = 0
           /\ \E k \in 1..BUF_SIZE :
                /\ k <= Len(host.typed)
                /\ host.to_master = SubSeq(host.typed, 1, Len(host.typed) - k)
                /\ HasCtrlQ(SubSeq(host.typed, Len(host.typed) - k + 1, Len(host.typed)))

\* a step that ends the drain of a readable master
DrainEnds == host.rd_pty /\ host.pc \in {"drain", "process"} /\ host'.pc = "render"

\* the drain ends on a read that found nothing (EAGAIN) or returned 0, and
\* with nothing left to read
DrainEndsEmpty == DrainEnds => (host'.n <= 0 /\ host'.pty_q = <<>>)

\* every byte read is fed, and fed bytes not yet rendered leave the flag set
FedAndDirty ==
    /\ done \o inp = host.read
    /\ (host.pc \in {"render", "drain"} /\ Len(done) > host.shown) => host.needs_render # 0

\* C25: with the master readable, one iteration reads it until a read finds
\* nothing more (EAGAIN) or returns 0: the drain does not end while bytes are
\* available, every byte read is fed to the parser, and the dirty flag is set
\* once a byte was processed.
C25_DrainsFully == []FedAndDirty /\ [][DrainEndsEmpty]_vars

\* the drain ends only after a read that did not fill buf
DrainEndsOnShortRead ==
    []FedAndDirty /\ [][DrainEnds => host'.n < BUF_SIZE]_vars

(***************************************************************************)
(* Start-up and exit.                                                      *)
(***************************************************************************)
\* the second argument as atof reads it, in half pixels: 0, 5.5, 6, 16, 72,
\* 72.5, 100, -1
FontArgs ==
    {0, FONT_MIN * HalfPx - 1, FONT_MIN * HalfPx, FONT_DEFAULT * HalfPx,
     FONT_MAX * HalfPx, FONT_MAX * HalfPx + 1, 100 * HalfPx, -HalfPx}

\* no argument, the font alone, the font and a size
MainArgs == {<<1, 0>>, <<2, 0>>} \cup {<<3, f>> : f \in FontArgs}

InitMain ==
    /\ TERM_COLS = MIN_TERM_COLS
    /\ TERM_ROWS = MIN_TERM_ROWS
    /\ pre = Boot
    /\ term = term_init
    /\ inp = <<>>
    /\ done = <<>>
    /\ kb = kb_init
    /\ kbio = NoKey
    /\ host \in {host_start(a[1], a[2], <<CTRL_Q>>, <<97>>) : a \in MainArgs}
    /\ fb = NoFramebuffer

SpecMain == InitMain /\ [][NextMain]_vars

Exited == host.pc = "exit"

\* the framebuffer and the PTY master are released
DevicesReleased == ~host.fb_fd /\ ~host.fb_mem /\ ~host.master

\* position of the first e in the log, 0 when absent
FirstAt(e) ==
    IF \E i \in 1..Len(host.log) : host.log[i] = e
    THEN CHOOSE i \in 1..Len(host.log) :
            host.log[i] = e /\ \A j \in 1..(i - 1) : host.log[j] # e
    ELSE 0

\* on a clean exit: settings restored and cursor shown, then the framebuffer
\* cleared, then unmapped
ShutdownOrdered ==
    host.exit_code = 0 =>
        /\ ~host.raw
        /\ FirstAt("restore") > 0
        /\ FirstAt("restore") < FirstAt("show_cursor")
        /\ \E i \in 1..Len(host.log) :
            /\ host.log[i] = "fb_clear"
            /\ FirstAt("show_cursor") < i
            /\ i < FirstAt("fb_close")

\* C26: at every exit of main, error exits and clean shutdown alike, every
\* resource acquired has been released: framebuffer mapping and descriptor,
\* font buffers, PTY master; on clean shutdown the saved terminal settings
\* are restored and the show-cursor sequence is written before the
\* framebuffer is cleared and unmapped.
C26_ReleasedAtExit ==
    Exited => (DevicesReleased /\ host.buffers = 0 /\ ShutdownOrdered)

\* the same without the font buffers
DevicesReleasedAtExit == Exited => (DevicesReleased /\ ShutdownOrdered)

\* the size argument is absent or zero
SizeDefaulted == host.argc < 3 \/ host.font_arg = 0
SizeInRange == host.font_arg >= FONT_MIN * HalfPx /\ host.font_arg <= FONT_MAX * HalfPx

\* the step that parses the arguments, given a font path
ArgsStepOK ==
    (host.pc = "args" /\ host'.pc # "args" /\ host.argc >= 2) =>
        IF SizeDefaulted \/ SizeInRange
        THEN host'.pc = "fb_open"
        ELSE host'.pc = "exit" /\ host'.exit_code = 1 /\ ~host'.fb_fd /\ host'.log = <<>>

\* the font size once main has settled it
SizeSettled ==
    host.font_size_px # 0 =>
        host.font_size_px = IF SizeDefaulted THEN FONT_DEFAULT * HalfPx ELSE host.font_arg

\* C27: with the size argument absent or zero the font has 16 pixels; a value
\* in [6, 72] is used as given; any other value ends main with a non-zero
\* exit code before any device is opened.
C27_FontSize == []SizeSettled /\ [][ArgsStepOK]_vars

\* the same for a size argument that is absent or not zero
FontSizeUnlessZero ==
    []SizeSettled /\ [][(host.argc < 3 \/ host.font_arg # 0) => ArgsStepOK]_vars

(***************************************************************************)
(* The keyboard mapper.                                                    *)
(***************************************************************************)
InitKeys ==
    /\ TERM_COLS = MIN_TERM_COLS
    /\ TERM_ROWS = MIN_TERM_ROWS
    /\ pre = Boot
    /\ term = pre
    /\ inp = <<>>
    /\ done = <<>>
    /\ Detached

SpecKeys == InitKeys /\ [][NextKeys]_vars

\* the letter rows of the keyboard: KEY_Q.., KEY_A.., KEY_Z.. ("qwertyuiop",
\* "asdfghjkl", "zxcvbnm")
LetterRows ==
    <<<<16, <<113, 119, 101, 114, 116, 121, 117, 105, 111, 112>>>>,
      <<30, <<97, 115, 100, 102, 103, 104, 106, 107, 108>>>>,
      <<44, <<122, 120, 99, 118, 98, 110, 109>>>>>>

IsLetterKey(keycode) ==
    \E r \in 1..3 : keycode >= LetterRows[r][1]
                    /\ keycode < LetterRows[r][1] + Len(LetterRows[r][2])

\* the lowercase letter printed on a letter key
LetterOf(keycode) ==
    LET r == CHOOSE q \in 1..3 : keycode >= LetterRows[q][1]
                                 /\ keycode < LetterRows[q][1] + Len(LetterRows[q][2])
    IN  LetterRows[r][2][keycode - LetterRows[r][1] + 1]

IsLetterByte(b) == (b >= 65 /\ b <= 90) \/ (b >= 97 /\ b <= 122)

CtrlHeld == kbio.held \cap {KEY_LEFTCTRL, KEY_RIGHTCTRL} # {}
ShiftHeld == kbio.held \cap {KEY_LEFTSHIFT, KEY_RIGHTSHIFT} # {}
AltHeld == kbio.held \cap {KEY_LEFTALT, KEY_RIGHTALT} # {}

\* C28: with no Ctrl held, kb_get_sequence answers a letter key with the one
\* byte of its own letter, lowercase without Shift and uppercase with Shift,
\* and answers no other key with a letter.
C28_LetterKeys ==
    (kbio.op = "press" /\ ~CtrlHeld) =>
        IF IsLetterKey(kbio.code)
        THEN kbio.seq = <<LetterOf(kbio.code) - (IF ShiftHeld THEN 32 ELSE 0)>>
        ELSE ~(Len(kbio.seq) = 1 /\ IsLetterByte(kbio.seq[1]))

\* each flag is set exactly when one of its two keys is held
ModifiersTrackHeld ==
    /\ kb.ctrl_pressed # 0 <=> CtrlHeld
    /\ kb.shift_pressed # 0 <=> ShiftHeld
    /\ kb.alt_pressed # 0 <=> AltHeld

\* a release yields no bytes and changes nothing but the three flags
ReleaseStepOK ==
    kbio'.op = "release" =>
        /\ kbio'.seq = <<>>
        /\ [kb' EXCEPT !.ctrl_pressed = 0, !.shift_pressed = 0, !.alt_pressed = 0]
           = [kb EXCEPT !.ctrl_pressed = 0, !.shift_pressed = 0, !.alt_pressed = 0]

\* C29: after any presses and releases each of the Ctrl, Shift and Alt flags
\* is set exactly when the left or the right key of that modifier is held; a
\* release changes modifier state only and yields no bytes.
C29_ModifiersTracked == []ModifiersTrackHeld /\ [][ReleaseStepOK]_vars

\* what does hold: a press sets its flag, a release clears it and nothing else
PressSetsReleaseClears ==
    /\ [](/\ kbio.code \in {KEY_LEFTCTRL, KEY_RIGHTCTRL} =>
                (kb.ctrl_pressed # 0 <=> kbio.op = "press")
          /\ kbio.code \in {KEY_LEFTSHIFT, KEY_RIGHTSHIFT} =>
                (kb.shift_pressed # 0 <=> kbio.op = "press")
          /\ kbio.code \in {KEY_LEFTALT, KEY_RIGHTALT} =>
                (kb.alt_pressed # 0 <=> kbio.op = "press"))
    /\ [][ReleaseStepOK]_vars

\* longest run of bytes processed before the Ctrl+Q
InputLen == 3

\* ESC, '[', 'A', '~', '5', 'a', Ctrl+C, '=', Ctrl+Q
InputBytes == {ESC, 91, 65, 126, 53, 97, 3, 61, CTRL_Q}

RECURSIVE InputRuns(_)
InputRuns(n) ==
    IF n = 0 THEN {<<>>}
    ELSE InputRuns(n - 1) \cup {Append(q, b) : q \in InputRuns(n - 1), b \in InputBytes}

InitInput ==
    /\ TERM_COLS = MIN_TERM_COLS
    /\ TERM_ROWS = MIN_TERM_ROWS
    /\ pre = Boot
    /\ term = pre
    /\ inp \in {Append(q, CTRL_Q) : q \in InputRuns(InputLen)}
    /\ done = <<>>
    /\ Detached

SpecInput == InitInput /\ [][NextInput]_vars

\* C30: whatever bytes kb_process_input has processed before, an ESC byte or
\* an unfinished escape sequence included, a call with 0x11 returns
\* ACTION_QUIT and produces no output bytes.
C30_QuitMandatory ==
    (kbio.op = "input" /\ kbio.code = CTRL_Q) =>
        (kbio.action = "ACTION_QUIT" /\ kbio.seq = <<>>)

\* the same when no escape sequence was being collected
QuitOutsideEscape ==
    [][(inp # <<>> /\ Head(inp) = CTRL_Q /\ kb.escape_state = 0) =>
            (kbio'.action = "ACTION_QUIT" /\ kbio'.seq = <<>>)]_vars

(***************************************************************************)
(* Pixel stores.                                                           *)
(***************************************************************************)
MaxWidth == 2       \* pixels per line of the modelled devices
MaxHeight == 2      \* lines of the modelled devices
MaxPad == 1         \* bytes a line may be longer than its pixels
MaxSlack == 2       \* bytes the mapping may be longer than its lines

\* visible depths the fbdev interface reports
Depths == {8, 16, 24, 32}

Colors == {16777215, 287454020}     \* 0x00FFFFFF, 0x11223344

Devices ==
    {fb_open(w, h, d, w * (d \div 8) + pad, (w * (d \div 8) + pad) * h + slack) :
        w \in 1..MaxWidth, h \in 1..MaxHeight, d \in Depths,
        pad \in 0..MaxPad, slack \in {0, MaxSlack}}

\* one call of fb_put_pixel, as fb_clear, fb_draw_bitmap and render_cell make
\* it; a store outside the mapping has no defined continuation
PutPixel ==
    /\ fb.beyond = {}
    /\ \E x \in -1..fb.width, y \in -1..fb.height, color \in Colors :
          fb' = fb_put_pixel(fb, x, y, color)
    /\ UNCHANGED <<TERM_COLS, TERM_ROWS, term, pre, inp, done, kb, kbio, host>>

NextPixel == PutPixel

InitPixel ==
    /\ TERM_COLS = MIN_TERM_COLS
    /\ TERM_ROWS = MIN_TERM_ROWS
    /\ pre = Boot
    /\ term = pre
    /\ inp = <<>>
    /\ done = <<>>
    /\ kb = kb_init
    /\ kbio = NoKey
    /\ host = host_feeding
    /\ fb \in Devices

SpecPixel == InitPixel /\ [][NextPixel]_vars

\* C31: fb_put_pixel never modifies a byte outside the mapping [0, mem_size):
\* whatever the coordinates, the depth and the line length, a call either
\* writes nothing or writes only bytes below mem_size.
C31_PixelInMapping == fb.beyond = {}

\* the stores stay inside the mapping when a pixel is as wide as the store
PixelInMappingAt32 == fb.bpp = 8 * PIXEL_BYTES => fb.beyond = {}

(***************************************************************************)
(* Cell indices.                                                           *)
(***************************************************************************)
GridCounts == {1, 2, 5, 999}

\* J K X P @ L M S T
GridFinals == {74, 75, 88, 80, 64, 76, 77, 83, 84}

\* every operation that reads or writes cells: a character, a newline,
\* erases, insert and delete of characters and of lines, scrolls
GridOps ==
    {<<120>>, <<10>>}
    \cup {Csi0(f) : f \in GridFinals}
    \cup {Csi1(k, f) : k \in GridCounts, f \in GridFinals}

InitGrid ==
    /\ TERM_COLS \in MIN_TERM_COLS..MAX_TERM_COLS
    /\ TERM_ROWS \in MIN_TERM_ROWS..MAX_TERM_ROWS
    /\ pre \in ErasePre
    /\ term = pre
    /\ inp \in GridOps
    /\ done = <<>>
    /\ Detached

SpecGrid == InitGrid /\ [][Next]_vars

\* C32: every cell read or written by a terminal operation has a row index
\* in [0, rows) and a column index in [0, cols), whatever bytes arrive.
C32_CellsInGrid == ~term.stray

\* the accesses outside the grid are those of erase-to-cursor in pending
\* wrap (column cols) and of delete-chars with a count above cols (negative
\* columns); every other operation stays inside the grid
StrayOnlyThere ==
    term.stray =>
        LET final == done[Len(done)]
        IN  \/ final \in {74, 75} /\ term.escape_params[0] = 1 /\ pre.cursor_x = TERM_COLS
            \/ final = 80 /\ term.escape_params[0] > TERM_COLS

(***************************************************************************)
(* Blanking and the SGR state.                                             *)
(***************************************************************************)
\* the grid filled with letters, plain or bold
BlankContents == {Feed(Boot, Fill), Feed(Boot, CsiN(<<1>>, 109) \o Fill)}

\* the SGR state at the time of the blanking: default, bold, plain in colours
BlankSgr == {CsiN(<<0>>, 109), CsiN(<<0, 1>>, 109), CsiN(<<0, 31, 44>>, 109)}

BlankRegions == {<<>>, Csi2(1, 2, 114)}

BlankPre ==
    {Feed(c, s \o r \o Goto(y, x)) :
        c \in BlankContents, s \in BlankSgr, r \in BlankRegions,
        y \in 0..(TERM_ROWS - 1), x \in 0..(TERM_COLS - 1)}

\* newline; scroll up and down; erase display, line, characters; delete and
\* insert characters; insert and delete lines
BlankOps ==
    {<<10>>, Csi0(83), Csi0(84), Csi1(2, 74), Csi1(2, 75), Csi0(88),
     Csi0(80), Csi0(64), Csi0(76), Csi0(77)}

InitBlank ==
    /\ TERM_COLS \in MIN_TERM_COLS..MAX_TERM_COLS
    /\ TERM_ROWS \in MIN_TERM_ROWS..MAX_TERM_ROWS
    /\ pre \in BlankPre
    /\ term = pre
    /\ inp \in BlankOps
    /\ done = <<>>
    /\ Detached

SpecBlank == InitBlank /\ [][Next]_vars

InRegion(t) == t.scroll_top <= t.cursor_y /\ t.cursor_y <= t.scroll_bottom

\* the cells operation `done` has blanked, given the state it started in
BlankedBy(y, x) ==
    \/ done = <<10>> /\ pre.cursor_y = pre.scroll_bottom /\ y = pre.scroll_bottom
    \/ done = Csi0(83) /\ y = pre.scroll_bottom
    \/ done = Csi0(84) /\ y = pre.scroll_top
    \/ done = Csi1(2, 74)
    \/ done = Csi1(2, 75) /\ y = pre.cursor_y
    \/ done = Csi0(88) /\ y = pre.cursor_y /\ x = pre.cursor_x
    \/ done = Csi0(80) /\ y = pre.cursor_y /\ x = TERM_COLS - 1
    \/ done = Csi0(64) /\ y = pre.cursor_y /\ x = pre.cursor_x
    \/ done = Csi0(76) /\ InRegion(pre) /\ y = pre.cursor_y
    \/ done = Csi0(77) /\ InRegion(pre) /\ y = pre.scroll_bottom

\* C33: a cell blanked by scroll, newline at the bottom, erase display, line
\* or characters, insert or delete of characters or lines is ' ' in the
\* current colours with the current bold flag, not the bold flag of the
\* content it replaced.
C33_BlankCarriesSgr ==
    inp = <<>> =>
        \A y \in 0..(TERM_ROWS - 1), x \in 0..(TERM_COLS - 1) :
            BlankedBy(y, x) =>
                Cell(term, y, x) = [codepoint |-> SPACE, fg_color |-> term.fg_color,
                                    bg_color |-> term.bg_color, bold |-> term.bold]

\* the blanked cells are ' ' in the current colours
BlankCarriesColours ==
    inp = <<>> =>
        \A y \in 0..(TERM_ROWS - 1), x \in 0..(TERM_COLS - 1) :
            BlankedBy(y, x) => IsBlank(term, Cell(term, y, x))

\* and keep the bold flag of the cell that was stored there before
BlankKeepsOldBold ==
    (inp = <<>> /\ done = Csi1(2, 74)) =>
        \A y \in 0..(TERM_ROWS - 1), x \in 0..(TERM_COLS - 1) :
            Cell(term, y, x).bold = Cell(pre, y, x).bold

(***************************************************************************)
(* Newline and the scroll region.                                          *)
(***************************************************************************)
\* the step hands '\n' to the terminal in Normal state
NewlineStep == inp # <<>> /\ Head(inp) = 10 /\ term.state = "STATE_NORMAL"

CellsUnchanged == term'.cells = term.cells

\* C34: a newline never moves the cursor upward, also when the cursor is on
\* a row below scroll_bottom, and with the cursor below the scroll region it
\* does not scroll the region.
C34_NewlineNotUpward ==
    [][NewlineStep =>
          /\ term'.cursor_y >= term.cursor_y
          /\ (term.cursor_y > term.scroll_bottom => CellsUnchanged)]_vars

\* with the cursor at or above scroll_bottom a newline does not move it upward
NewlineNotUpwardInRegion ==
    [][(NewlineStep /\ term.cursor_y <= term.scroll_bottom) =>
          term'.cursor_y >= term.cursor_y]_vars

\* with the cursor below scroll_bottom a newline puts it on scroll_bottom and
\* scrolls the region
NewlineBelowRegion ==
    [][(NewlineStep /\ term.cursor_y > term.scroll_bottom) =>
          /\ term'.cursor_y = term.scroll_bottom
          /\ term'.cells = term_scroll_up(term).cells]_vars

(***************************************************************************)
(* Empty CSI parameters.                                                   *)
(***************************************************************************)
\* ESC [ ; k final
CsiEmptyFirst(k, final) == <<ESC, 91, 59>> \o decimal(k) \o <<final>>
\* ESC [ k ; final
CsiEmptySecond(k, final) == <<ESC, 91>> \o decimal(k) \o <<59, final>>

EmptyValues == {1, 2, 3, 5}

InitEmpty ==
    /\ TERM_COLS \in MIN_TERM_COLS..MAX_TERM_COLS
    /\ TERM_ROWS \in MIN_TERM_ROWS..MAX_TERM_ROWS
    /\ pre \in {Feed(Boot, Goto(y, x)) : y \in 0..(TERM_ROWS - 1), x \in 0..(TERM_COLS - 1)}
    /\ term = pre
    /\ inp \in {CsiEmptyFirst(k, 72) : k \in EmptyValues}
            \cup {CsiEmptySecond(k, 72) : k \in EmptyValues}
            \cup {Csi1(k, 72) : k \in EmptyValues}
            \cup {<<ESC, 91, 59, 72>>}
    /\ done = <<>>
    /\ Detached

SpecEmpty == InitEmpty /\ [][Next]_vars

\* C35: in a sequence that starts with ';' the empty first parameter occupies
\* slot 0: the digits after the semicolon are stored as p[1], p[0] keeps its
\* default, the count at dispatch is 2, and ESC [ ; k H puts the cursor on
\* row 0, column k - 1 (clamped into the grid).
C35_EmptyFirstParam ==
    \A k \in EmptyValues :
        done = CsiEmptyFirst(k, 72) =>
            /\ term.num_escape_params = 2
            /\ term.escape_params[0] = 0
            /\ term.escape_params[1] = k
            /\ term.cursor_y = 0
            /\ term.cursor_x = Min(k - 1, TERM_COLS - 1)

\* a leading ';' is not counted: ESC [ ; k H leaves what ESC [ k H leaves
LeadingSemicolonDropped ==
    \A k \in EmptyValues :
        done = CsiEmptyFirst(k, 72) =>
            /\ term.num_escape_params = 1
            /\ term.escape_params[0] = k
            /\ term.cursor_y = Min(k - 1, TERM_ROWS - 1)
            /\ term.cursor_x = 0

\* an empty second parameter takes its default
EmptySecondParam ==
    \A k \in EmptyValues :
        done = CsiEmptySecond(k, 72) =>
            /\ term.num_escape_params = 2
            /\ term.escape_params[0] = k
            /\ term.escape_params[1] = 0
            /\ term.cursor_y = Min(k - 1, TERM_ROWS - 1)
            /\ term.cursor_x = 0

(***************************************************************************)
(* OSC ended by the string terminator.                                     *)
(***************************************************************************)
StLen == 2

\* ESC ] payload ESC \
StOps == {<<ESC, 93>> \o q \o <<ESC, 92>> : q \in OscPayloads(StLen) \cup OscLong}

InitSt ==
    /\ TERM_COLS = MIN_TERM_COLS
    /\ TERM_ROWS = MIN_TERM_ROWS
    /\ pre \in AbsorbPre
    /\ term = pre
    /\ inp \in StOps
    /\ done = <<>>
    /\ Detached

SpecSt == InitSt /\ [][Next]_vars

\* C36: an OSC sequence ended by ST (ESC followed by '\') leaves the grid and
\* the cursor unchanged: after the whole sequence no cell has been written
\* and the parser is in Normal state.
C36_StAbsorbed ==
    (inp = <<>> /\ done \in StOps) =>
        /\ GridUnchanged
        /\ CursorUnchanged
        /\ term.state = "STATE_NORMAL"

\* the ESC of ST ends the sequence with the frame as it was
StEscEnds ==
    (Len(inp) = 1 /\ done \o inp \in StOps) =>
        term.state = "STATE_NORMAL" /\ Frame(term) = Frame(pre)

\* and the '\' that follows is written as a character
StBackslashWritten ==
    (inp = <<>> /\ done \in StOps) =>
        /\ term.state = "STATE_NORMAL"
        /\ \E y \in 0..(TERM_ROWS - 1) :
               /\ term.cursor_y = y
               /\ term.cursor_x >= 1
               /\ Cell(term, y, term.cursor_x - 1).codepoint = 92

(***************************************************************************)
(* The UTF-8 accumulator.                                                  *)
(***************************************************************************)
AccumLen == 3

\* bytes the accumulator takes: 'A', a continuation byte, the lead bytes of
\* two, three and four byte sequences, an invalid lead byte
AccumBytes == {65, 144, 195, 228, 240, 255}

\* bytes that are not accumulated: LF, CR, BS, TAB, ESC, and NUL
ControlBytes == {10, 13, 8, 9, ESC, 0}

RECURSIVE AccumRuns(_)
AccumRuns(n) ==
    IF n = 0 THEN {<<>>}
    ELSE AccumRuns(n - 1) \cup {Append(q, b) : q \in AccumRuns(n - 1), b \in AccumBytes}

\* a run of accumulated bytes, then nothing, a control byte, or a control
\* byte and one more accumulated byte
AccumInputs ==
    AccumRuns(AccumLen + 1)
    \cup {q \o <<c>> : q \in AccumRuns(AccumLen), c \in ControlBytes}
    \cup {q \o <<c, 144>> : q \in AccumRuns(AccumLen), c \in ControlBytes}

InitAccum ==
    /\ TERM_COLS = MIN_TERM_COLS
    /\ TERM_ROWS = MIN_TERM_ROWS
    /\ pre = Boot
    /\ term = pre
    /\ inp \in AccumInputs
    /\ done = <<>>
    /\ Detached

SpecAccum == InitAccum /\ [][Next]_vars

AccumInRange == term.utf8_buf_len \in 0..3

\* the byte about to be processed reaches the length its sequence's first
\* byte announces
Completes ==
    LET first == IF term.utf8_buf_len = 0 THEN Head(inp) ELSE term.utf8_buf[0]
    IN  term.utf8_buf_len + 1 >= expected_len(first)

AccumStepOK ==
    (inp # <<>> /\ term.state = "STATE_NORMAL") =>
        IF Head(inp) \in {10, 13, 8, 9, ESC} THEN term'.utf8_buf_len = 0
        ELSE IF Head(inp) >= 32 THEN
            /\ term.utf8_buf_len \in 0..3
            /\ ~term'.fault
            /\ term'.utf8_buf[term.utf8_buf_len] = Head(inp)
            /\ term'.utf8_buf_len = IF Completes THEN 0 ELSE term.utf8_buf_len + 1
        ELSE term'.utf8_buf_len = term.utf8_buf_len

\* C37: the UTF-8 accumulator never overflows: between bytes utf8_buf_len is
\* in 0..3, every append writes at an index in 0..3, and the accumulator is
\* empty after each byte that completes a sequence and after each of LF, CR,
\* BS, TAB and ESC received in Normal state.
C37_AccumulatorBounded == []AccumInRange /\ [][AccumStepOK]_vars

\* a four-byte sequence has filled indices 0..3 and left the accumulator empty
C37_Witness ==
    /\ done = <<240, 144, 144, 144>>
    /\ term.utf8_buf = [i \in 0..3 |-> done[i + 1]]
    /\ term.utf8_buf_len = 0
    /\ Cell(term, 0, 0).codepoint = 66576
    /\ ~term.fault

====
